---- MODULE Spec2Model ----
(***************************************************************************)
(* TSE option market dashboard.                                            *)
(*                                                                         *)
(*   server/data_updater.py    DataUpdater: background pipeline scheduler  *)
(*   Scripts/chain_calculator.py  build_chain and its content-hash gate    *)
(*   Scripts/iv_calculator.py     should_rebuild of the IV history         *)
(*   Scripts/date_processor.py    should_process of the date stage         *)
(*   Scripts/data_fetcher.py      fetch_options_live (the live table)      *)
(*                                                                         *)
(* Three specifications share the variables:                               *)
(*   SpecUpdater  the scheduler: one caller thread issuing start()/stop(), *)
(*                the loop threads it creates, a clock;                    *)
(*   SpecChain    the chain build over the files of Output/1 and Output/2; *)
(*   SpecGates    the three staleness gates as functions of the files      *)
(*                they read, the files drawn from bounded sets.            *)
(***************************************************************************)
EXTENDS Integers, Sequences, FiniteSets, TLC

\* ------------------------------------------------------------------------
\* Bounds of the model
\* ------------------------------------------------------------------------
\* loop threads ever created by start()
MaxThreads == 2
\* last instant of the clock, in seconds
MaxTime == 2
\* DataUpdater(interval): the interval the updater is built with, in
\* seconds (server/app.py builds it with 300; the class takes any)
Interval == 1

\* records of the exchange's feed
MaxRecords == 2
\* strikes are 1..MaxStrike
MaxStrike == 2
\* remaining days are 0..MaxDays
MaxDays == 2
\* writes of options_live.xlsx
MaxFetches == 2
\* calls of build_chain
MaxBuilds == 3
\* dates of the gate tables and flags are 1..MaxDate
MaxDate == 2

\* calls of build_iv_history
MaxIvBuilds == 2
\* rows of the options history besides the filler rows
MaxTail == 2
\* filler rows of the options history
FillerRows == 10
\* valid rows of the underlying's history
MaxHistRows == 92
\* rows of the underlying's history without a price
MaxBad == 2
\* calls of process_file on one workbook
MaxProcess == 2

\* ------------------------------------------------------------------------
\* Program constants
\* ------------------------------------------------------------------------
\* len(self.steps)
NumSteps == 4
\* chain_calculator.MIN_IV = 0.01, in hundredths
MinIvCenti == 1
\* iv_calculator line 145: total // 10
ProgressParts == 10
\* chain_calculator lines 160-161: the windows of HV30 and HV90
Hv30Window == 30
Hv90Window == 90

VARIABLES
    \* ---- DataUpdater fields (data_updater.py:16-24)
    running,          \* self.running
    thread,           \* self.thread: 0 is None, else the id of the thread
    status,           \* self.status
    last_update,      \* self.last_update: 0 is None, else a timestamp
    last_run_start,   \* self.last_run_start
    next_run_time,    \* self._next_run_time
    lock,             \* self.lock: 0 is free, else the holder
    \* ---- threads
    now,              \* time.time()
    nthreads,         \* threads created so far
    pc,               \* position of each loop thread
    cur,              \* _updater_loop: current_time
    wake,             \* end of the running time.sleep()
    idx,              \* _run_pipeline: index of the stage being run
    success_count,    \* _run_pipeline: success_count
    start_time,       \* _run_pipeline: start_time
    end_time,         \* _run_pipeline: end_time
    cpc,              \* position of the thread that calls start()/stop()
    \* ---- history of the current run (not program state)
    ran,              \* names of the stages entered in this run, in order
    raised,           \* indexes of the stages of this run that raised
    begunAfterStop,   \* runs a thread began while running was False
    \* ---- the exchange's feed (environment of data_fetcher.py)
    feed,             \* instrumentOptMarketWatch: one record per strike/expiry
    spotUA,           \* pDrCotVal_UA of the records (one underlying)
    \* ---- files
    undLive,          \* Output/1/underlying_live.xlsx
    liveFile,         \* Output/1/options_live.xlsx
    outFile,          \* Output/2/options_chain_enhanced.xlsx
    hashFile,         \* Output/2/options_chain_enhanced.xlsx.hash
    ivOutFile,        \* Output/3/option_iv_history.xlsx
    histOptFile,      \* Output/1/options_history_252.xlsx
    dateFile,         \* a file of date_processor.FILES
    flagFile,         \* its '.processed' sidecar
    \* ---- build_chain calls (history, not program state)
    calls,            \* build_chain calls made
    chainRet,         \* how the last build_chain call returned
    prevLive,         \* the live file as the last build_chain call saw it
    sameInput,        \* the last call saw the live file of the call before
    builtFrom,        \* the live rows the output artifact was built from
    \* ---- last answer of each gate (history, not program state)
    gateChain, gateIV, gateDate,
    \* ---- the IV history build
    histUndFile,      \* Output/1/underlying_history_252.xlsx
    ivCalls,          \* build_iv_history calls made
    ivRet,            \* how the last build_iv_history call returned
    \* ---- the pricing functions and calculate_hv, applied to arguments
    priceArgs,        \* S, K, T, sigma, price, typ
    priceRet,         \* what bs_price, implied_volatility, calculate_greeks gave
    hvHist,           \* underlying_history_252.xlsx as build_chain reads it
    hvRet,            \* the hv_data of the underlying
    \* ---- get_status
    qpc,              \* the request thread's position
    snap,             \* the dict get_status returned last
    \* ---- the per-contract loop of build_chain, applied to a live table
    loopRet,          \* the rows it appended and its skip counter
    \* ---- date_processor.process_file calls (history, not program state)
    procCalls,        \* process_file calls made
    procRet,          \* how the last process_file call returned
    \* ---- app.py
    cached_iv,        \* the global cached_iv
    ivResp            \* the last answer of /api/iv

updVars == <<running, thread, status, last_update, last_run_start,
             next_run_time, lock, now, nthreads, pc, cur, wake, idx,
             success_count, start_time, end_time, cpc, ran, raised,
             begunAfterStop>>

chainVars == <<feed, spotUA, undLive, liveFile, outFile, hashFile, calls,
               chainRet, prevLive, sameInput, builtFrom>>

gateVars == <<ivOutFile, histOptFile, dateFile, flagFile, gateChain, gateIV,
              gateDate>>

ivVars == <<histUndFile, ivCalls, ivRet>>

extVars == <<loopRet, procCalls, procRet, cached_iv, ivResp>>

calcVars == <<priceArgs, priceRet, hvHist, hvRet, extVars>>

statVars == <<qpc, snap>>

vars == <<updVars, statVars, chainVars, gateVars, ivVars, calcVars>>

Threads == 1..MaxThreads

Max(a, b) == IF a >= b THEN a ELSE b

\* ------------------------------------------------------------------------
\* Files.  A workbook is its table together with the stamp of the write
\* that produced its bytes: to_excel stores the time of writing in the
\* workbook, so equal tables written at different times are different bytes.
\* ------------------------------------------------------------------------
NoWorkbook == [exists |-> FALSE, rows |-> <<>>, stamp |-> 0]

NoneHash == [kind |-> "none", rows |-> <<>>, stamp |-> 0]

JunkText == [kind |-> "junk", rows |-> <<>>, stamp |-> 0]

NoSidecar == [state |-> "absent", text |-> NoneHash]

UnreadableSidecar == [state |-> "unreadable", text |-> NoneHash]

\* chain_calculator.file_hash: None for a missing file, else the SHA-256 of
\* the bytes (injective on the files of the model)
file_hash(f) ==
    IF ~f.exists THEN NoneHash
    ELSE [kind |-> "sha256", rows |-> f.rows, stamp |-> f.stamp]

\* ------------------------------------------------------------------------
\* data_fetcher.fetch_options_live: the rows built from the feed.  The
\* record at position i of the feed carries the exchange's instrument codes
\* insCode_P = PutCode(i) and, when it lists a call, insCode_C = CallCode(i).
\* The feed lists complete records of one underlying: underlying_isin is 1
\* (0 is an empty cell) and the cells of a row hold numbers ("ok"); a table
\* may also hold a row without a price ("no_price": real_time_price is
\* empty) or with a cell float() or int() rejects ("bad_number").
\* ------------------------------------------------------------------------
PutCode(i) == 2 * i - 1

CallCode(i) == 2 * i

Common(rec, spot) ==
    [strike |-> rec.strike, remained_day |-> rec.days, end_date |-> rec.end,
     underlying_real_time_price |-> spot]

PutRow(i, rec, spot) ==
    [isin_put |-> PutCode(i),
     isin_call |-> IF rec.hasCall THEN CallCode(i) ELSE 0,
     type |-> "PUT", real_time_price |-> rec.priceP,
     underlying_isin |-> 1, cells |-> "ok",
     strike |-> Common(rec, spot).strike,
     remained_day |-> Common(rec, spot).remained_day,
     end_date |-> Common(rec, spot).end_date,
     underlying_real_time_price |-> Common(rec, spot).underlying_real_time_price]

CallRow(i, rec, spot) ==
    [isin_put |-> PutCode(i), isin_call |-> CallCode(i),
     type |-> "CALL", real_time_price |-> rec.priceC,
     underlying_isin |-> 1, cells |-> "ok",
     strike |-> Common(rec, spot).strike,
     remained_day |-> Common(rec, spot).remained_day,
     end_date |-> Common(rec, spot).end_date,
     underlying_real_time_price |-> Common(rec, spot).underlying_real_time_price]

RECURSIVE RecordsFrom(_, _, _)
RecordsFrom(i, fd, spot) ==
    IF i > Len(fd) THEN <<>>
    ELSE <<PutRow(i, fd[i], spot)>>
         \o (IF fd[i].hasCall THEN <<CallRow(i, fd[i], spot)>> ELSE <<>>)
         \o RecordsFrom(i + 1, fd, spot)

LiveRowsOf(fd, spot) == RecordsFrom(1, fd, spot)

\* ------------------------------------------------------------------------
\* chain_calculator.should_rebuild and save_hash.  A gate answers with its
\* result and with what became of the read of the saved value: "none" (not
\* read), "ok", "unusable" (read, but not a value of the expected form) or
\* "error" (the read raised).
\* ------------------------------------------------------------------------
Answer(res, rd) == [done |-> TRUE, result |-> res, read |-> rd]

NoAnswer == [done |-> FALSE, result |-> FALSE, read |-> "none"]

\* the except branch of lines 108-109 answering False
ChainGateExcept_Skip == FALSE

\* lines 108-109: except: return True
ChainGateExcept == TRUE

chain_should_rebuild(live, out, hash) ==
    IF ~out.exists THEN Answer(TRUE, "none")
    ELSE IF ~live.exists THEN Answer(FALSE, "none")
    ELSE IF file_hash(live) = NoneHash THEN Answer(TRUE, "none")
    ELSE IF hash.state = "absent" THEN Answer(TRUE, "none")
    ELSE IF hash.state = "unreadable" THEN Answer(ChainGateExcept, "error")
    ELSE Answer(file_hash(live) # hash.text,
                IF hash.text.kind = "sha256" THEN "ok" ELSE "unusable")

save_hash(live, hash) ==
    IF file_hash(live) # NoneHash
      THEN [state |-> "text", text |-> file_hash(live)]
      ELSE hash

\* ------------------------------------------------------------------------
\* chain_calculator.build_chain
\* ------------------------------------------------------------------------
\* lines 236-239: the price of the underlying, from underlying_live.xlsx when
\* that file lists the underlying, else from the row itself
SpotOf(r, und) ==
    IF und.exists THEN und.price ELSE r.underlying_real_time_price

\* line 246 naming every contract by isin_put
ContractIsin_AlwaysPut(r) == r.isin_put

\* line 246: isin_put if typ == 'PUT' else isin_call
ContractIsin(r) == IF r.type = "PUT" THEN r.isin_put ELSE r.isin_call

\* lines 231-250 and 295-297: what skips a row.  No underlying (232), no
\* spot or a spot <= 0 (237), a cell that float() or int() rejects (241-246,
\* 270-293, caught at 295), T <= 0 or price <= 0 (248); an empty price is
\* NaN, and "NaN <= 0" is False
Skipped(r, und) ==
    \/ r.underlying_isin = 0
    \/ SpotOf(r, und) <= 0
    \/ r.cells = "bad_number"
    \/ r.remained_day <= 0
    \/ (r.cells # "no_price" /\ r.real_time_price <= 0)

\* lines 263-293: the ChainRow of a row (the fields the ordering, the
\* identity and the prices rest on)
ChainRow(r, und) ==
    [contract_isin |-> ContractIsin(r), type |-> r.type, strike |-> r.strike,
     days_to_expiry |-> r.remained_day, market_price |-> r.real_time_price,
     underlying_price |-> SpotOf(r, und)]

\* lines 229-297: the loop over the live rows, in file order
RECURSIVE ProcessRows(_, _)
ProcessRows(lrows, und) ==
    IF lrows = <<>> THEN <<>>
    ELSE (IF Skipped(Head(lrows), und) THEN <<>>
          ELSE <<ChainRow(Head(lrows), und)>>)
         \o ProcessRows(Tail(lrows), und)

\* the place of a kind label in the order of strings: 'CALL' < 'PUT'
LabelOrd(typ) == IF typ = "CALL" THEN 1 ELSE 2

\* line 309 with ascending=[True, True, True]
SortsBefore_TypeAscending(a, b) ==
    \/ a.days_to_expiry < b.days_to_expiry
    \/ /\ a.days_to_expiry = b.days_to_expiry
       /\ LabelOrd(a.type) < LabelOrd(b.type)
    \/ /\ a.days_to_expiry = b.days_to_expiry
       /\ a.type = b.type
       /\ a.strike < b.strike

\* line 309: the keys ['days_to_expiry', 'type', 'strike'] with
\* ascending=[True, False, True]
SortsBefore(a, b) ==
    \/ a.days_to_expiry < b.days_to_expiry
    \/ /\ a.days_to_expiry = b.days_to_expiry
       /\ LabelOrd(a.type) > LabelOrd(b.type)
    \/ /\ a.days_to_expiry = b.days_to_expiry
       /\ a.type = b.type
       /\ a.strike < b.strike

RECURSIVE InsertSorted(_, _)
InsertSorted(x, s) ==
    IF s = <<>> THEN <<x>>
    ELSE IF SortsBefore(x, Head(s)) THEN <<x>> \o s
    ELSE <<Head(s)>> \o InsertSorted(x, Tail(s))

\* line 309: sort_values(...).reset_index(drop=True)
RECURSIVE sort_values(_)
sort_values(s) ==
    IF s = <<>> THEN <<>>
    ELSE InsertSorted(s[Len(s)], sort_values(SubSeq(s, 1, Len(s) - 1)))

\* lines 173-316, the whole call
build_chain ==
    /\ calls < MaxBuilds
    /\ calls' = calls + 1
    /\ prevLive' = liveFile
    /\ sameInput' = (calls >= 1 /\ liveFile.exists /\ liveFile = prevLive)
    /\ gateChain' = chain_should_rebuild(liveFile, outFile, hashFile)
    /\ IF ~chain_should_rebuild(liveFile, outFile, hashFile).result
         THEN /\ chainRet' = "hit"
              /\ UNCHANGED <<outFile, hashFile, builtFrom>>
         ELSE IF ~liveFile.exists
         THEN /\ chainRet' = "nolive"
              /\ UNCHANGED <<outFile, hashFile, builtFrom>>
         ELSE IF ProcessRows(liveFile.rows, undLive) = <<>>
         THEN /\ chainRet' = "norows"
              /\ UNCHANGED <<outFile, hashFile, builtFrom>>
         ELSE /\ chainRet' = "built"
              /\ outFile' = [exists |-> TRUE,
                             rows |-> sort_values(ProcessRows(liveFile.rows, undLive)),
                             stamp |-> 0]
              /\ hashFile' = save_hash(liveFile, hashFile)
              /\ builtFrom' = liveFile.rows
    /\ UNCHANGED <<feed, spotUA, undLive, liveFile>>
    /\ UNCHANGED <<ivOutFile, histOptFile, dateFile, flagFile, gateIV, gateDate>>
    /\ UNCHANGED <<updVars, statVars, ivVars, calcVars>>

\* ------------------------------------------------------------------------
\* data_fetcher.fetch_options_live, called with force_update=True by main
\* ------------------------------------------------------------------------
\* lines 61-139: no write when the feed lists no contract; the bytes written
\* repeat those of the last write only when the rows are equal and the
\* write falls in the same second (s = the old stamp)
fetch_options_live ==
    /\ IF feed = <<>>
         THEN UNCHANGED liveFile
         ELSE \E s \in {liveFile.stamp + 1}
                         \cup (IF liveFile.rows = LiveRowsOf(feed, spotUA)
                                 THEN {liveFile.stamp} ELSE {}) :
                /\ s >= 1
                /\ s <= MaxFetches
                /\ liveFile' = [exists |-> TRUE,
                                rows |-> LiveRowsOf(feed, spotUA),
                                stamp |-> s]
    /\ UNCHANGED <<feed, spotUA, undLive, outFile, hashFile, calls, chainRet,
                   prevLive, sameInput, builtFrom>>
    /\ UNCHANGED gateVars
    /\ UNCHANGED <<updVars, statVars, ivVars, calcVars>>

\* the exchange: a day passes, every listed contract is a day closer to its
\* expiry (remainedDay of the feed)
NextDay ==
    /\ \E i \in 1..Len(feed) : feed[i].days > 0
    /\ feed' = [i \in 1..Len(feed) |->
                  [feed[i] EXCEPT !.days = IF @ > 0 THEN @ - 1 ELSE 0]]
    /\ UNCHANGED <<spotUA, undLive, liveFile, outFile, hashFile, calls,
                   chainRet, prevLive, sameInput, builtFrom>>
    /\ UNCHANGED gateVars
    /\ UNCHANGED <<updVars, statVars, ivVars, calcVars>>

\* ------------------------------------------------------------------------
\* iv_calculator.should_rebuild.  A table read for its 'date' column is
\* [exists, hasDate, dates]; a date is a positive integer, 0 an empty cell.
\* ------------------------------------------------------------------------
NoTable == [exists |-> FALSE, hasDate |-> FALSE, dates |-> <<>>]

Table(ds) == [exists |-> TRUE, hasDate |-> TRUE, dates |-> ds]

\* the workbook build_iv_history writes when it has no record (line 192):
\* a sheet without columns
BlankTable == [exists |-> TRUE, hasDate |-> FALSE, dates |-> <<>>]

\* the except branch of lines 51-53 answering False
IVGateExcept_Skip == FALSE

\* lines 51-53: except Exception: return True
IVGateExcept == TRUE

\* lines 47 and 48: read_excel(usecols=['date']) raises when the sheet has
\* no 'date' column; apply(jalali_to_int, axis=1) hands each ROW to
\* jalali_to_int, whose "if pd.isna(s)" raises on a row; with no row the
\* frame comes back empty and max() is a Series holding one NaN
MaxDateRaises(t) == ~t.hasDate \/ Len(t.dates) > 0

\* line 50: "pd.isna(saved) or current > saved" takes the truth value of a
\* Series, which raises
CompareRaises(current, saved) == TRUE

iv_should_rebuild(out, hist) ==
    IF ~out.exists THEN Answer(TRUE, "none")
    ELSE IF ~hist.exists THEN Answer(TRUE, "none")
    ELSE IF MaxDateRaises(hist) THEN Answer(IVGateExcept, "error")
    ELSE IF MaxDateRaises(out) THEN Answer(IVGateExcept, "error")
    ELSE IF CompareRaises(hist, out) THEN Answer(IVGateExcept, "error")
    ELSE Answer(FALSE, "ok")

\* ------------------------------------------------------------------------
\* date_processor.get_latest_date and should_process.  In a date column a
\* positive integer is a raw date (20250903); 0 is a cell safe_int_convert
\* turns into None (an empty cell, a text such as 1404/08/07).  The flag
\* file holds a text: an integer, or something int() rejects.
\* ------------------------------------------------------------------------
RECURSIVE MaxOf(_)
MaxOf(ds) == IF ds = <<>> THEN 0 ELSE Max(Head(ds), MaxOf(Tail(ds)))

\* lines 54-73; 0 stands for None
get_latest_date(f) ==
    IF ~f.exists THEN 0
    ELSE IF ~f.hasDate THEN 0
    ELSE MaxOf(f.dates)

IntText(n) == [kind |-> "int", v |-> n]

JunkFlag == [kind |-> "junk", v |-> 0]

NoFlag == [state |-> "absent", text |-> JunkFlag]

UnreadableFlag == [state |-> "unreadable", text |-> JunkFlag]

Flag(txt) == [state |-> "text", text |-> txt]

\* the except branch of lines 90-91 answering False
DateGateExcept_Skip == FALSE

\* lines 90-91: except: return True
DateGateExcept == TRUE

should_process(f, flag) ==
    IF ~f.exists THEN Answer(FALSE, "none")
    ELSE IF get_latest_date(f) = 0 THEN Answer(TRUE, "none")
    ELSE IF flag.state = "absent" THEN Answer(TRUE, "none")
    ELSE IF flag.state = "unreadable" THEN Answer(DateGateExcept, "error")
    ELSE IF flag.text.kind # "int" THEN Answer(DateGateExcept, "unusable")
    ELSE Answer(get_latest_date(f) > flag.text.v, "ok")

\* ------------------------------------------------------------------------
\* The gates, asked about the files as they are
\* ------------------------------------------------------------------------
AskChainGate ==
    /\ ~gateChain.done
    /\ gateChain' = chain_should_rebuild(liveFile, outFile, hashFile)
    /\ UNCHANGED <<ivOutFile, histOptFile, dateFile, flagFile, gateIV, gateDate>>
    /\ UNCHANGED chainVars
    /\ UNCHANGED <<updVars, statVars, ivVars, calcVars>>

AskIVGate ==
    /\ ~gateIV.done
    /\ gateIV' = iv_should_rebuild(ivOutFile, histOptFile)
    /\ UNCHANGED <<ivOutFile, histOptFile, dateFile, flagFile, gateChain, gateDate>>
    /\ UNCHANGED chainVars
    /\ UNCHANGED <<updVars, statVars, ivVars, calcVars>>

AskDateGate ==
    /\ ~gateDate.done
    /\ gateDate' = should_process(dateFile, flagFile)
    /\ UNCHANGED <<ivOutFile, histOptFile, dateFile, flagFile, gateChain, gateIV>>
    /\ UNCHANGED chainVars
    /\ UNCHANGED <<updVars, statVars, ivVars, calcVars>>

\* ------------------------------------------------------------------------
\* iv_calculator.build_iv_history.  options_history_252.xlsx holds rows
\* [source_isin, date, last]; underlying_history_252.xlsx holds rows
\* [date, last] of the one underlying; a date is a positive integer, 0 a
\* cell the date conversion turns into NaN; a price 0 is an empty cell or
\* a price that is not positive.
\* ------------------------------------------------------------------------
RECURSIVE DatesOf(_)
DatesOf(rws) ==
    IF rws = <<>> THEN <<>> ELSE <<Head(rws).date>> \o DatesOf(Tail(rws))

\* a workbook with a 'date' column, as the gate and the build read it
RowsTable(rws) ==
    [exists |-> TRUE, hasDate |-> TRUE, dates |-> DatesOf(rws), rows |-> rws]

NoHistory == [exists |-> FALSE, rows |-> <<>>]

\* A date cell holds 0 (empty), a number (the raw date 20250903) or the
\* text date_processor writes, kept as its digits above 10^8 (1404/06/12 is
\* 100000000 + 14040612), so that texts order as their strings do
JalaliText(digits) == 100000000 + digits

IsText(c) == c >= 100000000

\* lines 37-40: the digits of the cell when they are 8; the answer 0 is NaN
jalali_to_int(c) ==
    LET digits == IF IsText(c) THEN c - 100000000 ELSE c
    IN  IF c = 0 THEN 0
        ELSE IF digits >= 10000000 /\ digits <= 99999999 THEN digits
        ELSE 0

\* lines 94-116: the contract a code names, from the last live row naming
\* it; rows whose end_date is no date are passed over
RECURSIVE contract_map(_)
contract_map(lrows) ==
    IF lrows = <<>> THEN <<>>
    ELSE LET r == lrows[Len(lrows)]
             before == contract_map(SubSeq(lrows, 1, Len(lrows) - 1))
             put == [isin |-> r.isin_put, strike |-> r.strike,
                     end_int |-> jalali_to_int(r.end_date), type |-> "PUT"]
             call == [isin |-> r.isin_call, strike |-> r.strike,
                      end_int |-> jalali_to_int(r.end_date), type |-> "CALL"]
             keep == SelectSeq(before,
                       LAMBDA e : e.isin # r.isin_put /\ e.isin # r.isin_call)
         IN  IF jalali_to_int(r.end_date) = 0 THEN before
             ELSE keep \o <<put>> \o (IF r.isin_call # 0 THEN <<call>> ELSE <<>>)

Mapped(cmap, isin) == \E k \in 1..Len(cmap) : cmap[k].isin = isin

InfoOf(cmap, isin) ==
    cmap[CHOOSE k \in 1..Len(cmap) : cmap[k].isin = isin]

\* lines 124-126: rows without a source_isin or a date are dropped, then
\* the rows of contracts of the map are kept
FilterHist(hrows, cmap) ==
    SelectSeq(hrows,
      LAMBDA h : /\ h.source_isin # 0
                 /\ jalali_to_int(h.date) # 0
                 /\ Mapped(cmap, h.source_isin))

\* line 145: step = total // 10 if total > 0 else 1
ProgressStep(total) == IF total > 0 THEN total \div ProgressParts ELSE 1

\* line 148: idx % step raises ZeroDivisionError when step is 0
ProgressRaises(total) == total > 0 /\ ProgressStep(total) = 0

\* lines 85, 136-138 and 167: the rows of the index (date_int, isin) at
\* the date_int of the cell c
UndAt(urows, c) ==
    SelectSeq(urows, LAMBDA u : /\ jalali_to_int(u.date) # 0
                                /\ jalali_to_int(u.date) = jalali_to_int(c))

\* lines 151-171 skipping rows at or after the expiry only when the date
\* is after it
IvSkipped_ExpiryDay(h, cmap, urows) ==
    \/ InfoOf(cmap, h.source_isin).end_int < jalali_to_int(h.date)
    \/ h.last <= 0
    \/ Len(UndAt(urows, h.date)) # 1
    \/ UndAt(urows, h.date)[1].last <= 0

\* lines 151-171: the checks that skip a historical row; the lookup of the
\* underlying raises KeyError without a row for the date, and with several
\* rows the test of their 'last' raises; both are caught and skip the row
IvSkipped(h, cmap, urows) ==
    \/ InfoOf(cmap, h.source_isin).end_int <= jalali_to_int(h.date)
    \/ h.last <= 0
    \/ Len(UndAt(urows, h.date)) # 1
    \/ UndAt(urows, h.date)[1].last <= 0

\* lines 176-186
IvRecord(h, cmap, urows) ==
    [option_isin |-> h.source_isin, date |-> h.date, option_price |-> h.last,
     underlying_price |-> UndAt(urows, h.date)[1].last,
     strike |-> InfoOf(cmap, h.source_isin).strike,
     days_to_expiry |->
       InfoOf(cmap, h.source_isin).end_int - jalali_to_int(h.date),
     type |-> InfoOf(cmap, h.source_isin).type]

\* lines 147-186: the loop over the filtered rows
RECURSIVE IvRecords(_, _, _)
IvRecords(hrows, cmap, urows) ==
    IF hrows = <<>> THEN <<>>
    ELSE (IF IvSkipped(Head(hrows), cmap, urows) THEN <<>>
          ELSE <<IvRecord(Head(hrows), cmap, urows)>>)
         \o IvRecords(Tail(hrows), cmap, urows)

\* line 195: sort_values(['option_isin', 'date'])
IvSortsBefore(a, b) ==
    \/ a.option_isin < b.option_isin
    \/ (a.option_isin = b.option_isin /\ a.date < b.date)

RECURSIVE IvInsertSorted(_, _)
IvInsertSorted(x, s) ==
    IF s = <<>> THEN <<x>>
    ELSE IF IvSortsBefore(x, Head(s)) THEN <<x>> \o s
    ELSE <<Head(s)>> \o IvInsertSorted(x, Tail(s))

RECURSIVE iv_sort_values(_)
iv_sort_values(s) ==
    IF s = <<>> THEN <<>>
    ELSE IvInsertSorted(s[Len(s)], iv_sort_values(SubSeq(s, 1, Len(s) - 1)))

\* lines 56-199, the whole call
build_iv_history ==
    /\ ivCalls < MaxIvBuilds
    /\ ivCalls' = ivCalls + 1
    /\ gateIV' = iv_should_rebuild(ivOutFile, histOptFile)
    /\ IF ~iv_should_rebuild(ivOutFile, histOptFile).result
         THEN /\ ivRet' = "hit"
              /\ UNCHANGED ivOutFile
         ELSE IF ~liveFile.exists \/ ~histOptFile.exists \/ ~histUndFile.exists
         THEN /\ ivRet' = "raised"
              /\ UNCHANGED ivOutFile
         ELSE IF FilterHist(histOptFile.rows, contract_map(liveFile.rows)) = <<>>
         THEN /\ ivRet' = "nomatch"
              /\ UNCHANGED ivOutFile
         ELSE IF ProgressRaises(Len(FilterHist(histOptFile.rows,
                                               contract_map(liveFile.rows))))
         THEN /\ ivRet' = "raised"
              /\ UNCHANGED ivOutFile
         ELSE IF IvRecords(FilterHist(histOptFile.rows, contract_map(liveFile.rows)),
                           contract_map(liveFile.rows), histUndFile.rows) = <<>>
         THEN /\ ivRet' = "norecords"
              /\ ivOutFile' = BlankTable
         ELSE /\ ivRet' = "built"
              /\ ivOutFile' =
                   RowsTable(iv_sort_values(
                     IvRecords(FilterHist(histOptFile.rows, contract_map(liveFile.rows)),
                               contract_map(liveFile.rows), histUndFile.rows)))
    /\ UNCHANGED <<histOptFile, histUndFile, dateFile, flagFile, gateChain, gateDate>>
    /\ UNCHANGED chainVars
    /\ UNCHANGED <<updVars, statVars, calcVars>>

\* ------------------------------------------------------------------------
\* date_processor.process_file on a workbook with one date column
\* ------------------------------------------------------------------------
\* lines 26-33: None (0) for an empty cell and for a text that is no number
safe_int_convert(c) == IF c = 0 \/ IsText(c) THEN 0 ELSE c

\* lines 35-43: NaT (0) for None and for a number below 10000000
int_to_gregorian(n) == IF n = 0 \/ n < 10000000 THEN 0 ELSE n

\* lines 45-52: the text 'YYYY/MM/DD' of the Jalali date; the calendar is
\* jdatetime's, written out for the days 2025-09-03 to 2025-09-21, which
\* are 1404/06/12 to 1404/06/30
gregorian_to_jalali(g) == IF g = 0 THEN 0 ELSE JalaliText(g - 6210291)

\* lines 119-125, the three steps on one cell
ConvertCell(c) == gregorian_to_jalali(int_to_gregorian(safe_int_convert(c)))

\* the date cells as get_latest_date reads them (line 65)
IntCells(f) == [i \in 1..Len(f.dates) |-> safe_int_convert(f.dates[i])]

\* lines 54-73 over cells of every kind; 0 stands for None
LatestDate(f) ==
    IF ~f.exists \/ ~f.hasDate THEN 0 ELSE MaxOf(IntCells(f))

\* lines 93-97: the sidecar after mark_processed
mark_processed(f, flag) ==
    IF LatestDate(f) # 0 THEN Flag(IntText(LatestDate(f))) ELSE flag

\* lines 119-128: the workbook process_file saves
Converted(f) ==
    IF ~f.hasDate THEN f
    ELSE Table([i \in 1..Len(f.dates) |-> ConvertCell(f.dates[i])])

\* lines 100-130
process_file ==
    /\ procCalls < MaxProcess
    /\ procCalls' = procCalls + 1
    /\ gateDate' = should_process(IF dateFile.hasDate
                                    THEN Table(IntCells(dateFile))
                                    ELSE dateFile, flagFile)
    /\ IF ~gateDate'.result
         THEN /\ procRet' = "skipped"
              /\ UNCHANGED <<dateFile, flagFile>>
         ELSE /\ procRet' = "processed"
              /\ dateFile' = Converted(dateFile)
              /\ flagFile' = mark_processed(Converted(dateFile), flagFile)
    /\ UNCHANGED <<ivOutFile, histOptFile, gateChain, gateIV>>
    /\ UNCHANGED <<loopRet, cached_iv, ivResp>>
    /\ UNCHANGED <<priceArgs, priceRet, hvHist, hvRet>>
    /\ UNCHANGED <<chainVars, ivVars, updVars, statVars>>

\* ------------------------------------------------------------------------
\* bs_price, implied_volatility and calculate_greeks (chain_calculator.py;
\* iv_calculator.py has the first two with the same guards).  S, K, T and
\* price are numbers of which the guards test the sign; sigma is counted in
\* hundredths, so that MIN_IV = 0.01 is MinIvCenti.  What the formulas and
\* the root finder compute past the guards is left as a term over the
\* arguments.
\* ------------------------------------------------------------------------
Zero == [k |-> "zero", of |-> <<>>]

NaN == [k |-> "nan", of |-> <<>>]

Term(name, a) ==
    [k |-> name, of |-> <<a.S, a.K, a.T, a.sigma, a.price, a.typ>>]

\* lines 28-29 without the test of sigma
BsDegenerate_NoSigma(a) == a.T <= 0 \/ a.S <= 0 \/ a.K <= 0

\* chain_calculator.py 28 and iv_calculator.py 23
BsDegenerate(a) == a.T <= 0 \/ a.sigma <= 0 \/ a.S <= 0 \/ a.K <= 0

bs_price(a) == IF BsDegenerate(a) THEN Zero ELSE Term("bs_price", a)

\* a price no volatility gives: a call is worth less than S and a put less
\* than K, so bs_price - price is negative at MIN_IV and at MAX_IV and
\* brentq raises ValueError
NoRoot(a) ==
    \/ (a.typ = "CALL" /\ a.price >= a.S)
    \/ (a.typ = "PUT" /\ a.price >= a.K)

\* chain_calculator.py 42-50 and iv_calculator.py 30-34: the guard, then
\* brentq inside try/except
implied_volatility(a) ==
    IF a.price <= 0 \/ a.T <= 0 \/ a.S <= 0 \/ a.K <= 0 THEN NaN
    ELSE IF NoRoot(a) THEN NaN
    ELSE Term("brentq", a)

\* chain_calculator.py 54-80
calculate_greeks(a) ==
    IF a.T <= 0 \/ a.sigma <= MinIvCenti \/ a.S <= 0 \/ a.K <= 0
      THEN [delta |-> NaN, gamma |-> NaN, theta |-> NaN, vega |-> NaN,
            rho |-> NaN]
      ELSE [delta |-> Term("delta", a), gamma |-> Term("gamma", a),
            theta |-> Term("theta", a), vega |-> Term("vega", a),
            rho |-> Term("rho", a)]

NoGreeks == [delta |-> Zero, gamma |-> Zero, theta |-> Zero, vega |-> Zero,
             rho |-> Zero]

NoPriceRet == [bs |-> FALSE, iv |-> FALSE, greeks |-> FALSE,
               price |-> Zero, sigma |-> Zero, g |-> NoGreeks]

CallBsPrice ==
    /\ ~priceRet.bs
    /\ priceRet' = [priceRet EXCEPT !.bs = TRUE, !.price = bs_price(priceArgs)]
    /\ UNCHANGED <<priceArgs, hvHist, hvRet, extVars>>
    /\ UNCHANGED <<chainVars, gateVars, ivVars, updVars, statVars>>

CallImpliedVolatility ==
    /\ ~priceRet.iv
    /\ priceRet' = [priceRet EXCEPT !.iv = TRUE,
                                    !.sigma = implied_volatility(priceArgs)]
    /\ UNCHANGED <<priceArgs, hvHist, hvRet, extVars>>
    /\ UNCHANGED <<chainVars, gateVars, ivVars, updVars, statVars>>

CallGreeks ==
    /\ ~priceRet.greeks
    /\ priceRet' = [priceRet EXCEPT !.greeks = TRUE,
                                    !.g = calculate_greeks(priceArgs)]
    /\ UNCHANGED <<priceArgs, hvHist, hvRet, extVars>>
    /\ UNCHANGED <<chainVars, gateVars, ivVars, updVars, statVars>>

\* ------------------------------------------------------------------------
\* chain_calculator.calculate_hv and the hv_cache of build_chain.  The
\* history holds rows [own, date, last]: own tells the rows of the
\* underlying asked for, dates are valid dates, a last of 0 is a price that
\* is missing or not positive.  The value of std() over w returns is the
\* term Std(w).
\* ------------------------------------------------------------------------
Std(w) == [k |-> "std", of |-> <<w>>]

RECURSIVE WindowsOf(_)
WindowsOf(vs) ==
    IF vs = <<>> THEN <<>> ELSE Head(vs).of \o WindowsOf(Tail(vs))

\* np.nanmean(valid_vols)
Mean(vs) == [k |-> "mean", of |-> WindowsOf(vs)]

\* the literal 0.3 of lines 167, 210 and 254
DefaultVol == [k |-> "0.3", of |-> <<>>]

\* Series.std(): the sample deviation (ddof=1), NaN on fewer than 2 values
SeriesStd(w) == IF w < 2 THEN NaN ELSE Std(w)

\* line 135: drop_duplicates('date_int') keeps the first row of a date
DropDuplicateDates(rws) ==
    LET marked == [i \in 1..Len(rws) |->
                     [row |-> rws[i],
                      first |-> \A j \in 1..(i - 1) : rws[j].date # rws[i].date]]
        kept == SelectSeq(marked, LAMBDA m : m.first)
    IN  [i \in 1..Len(kept) |-> kept[i].row]

HvTuple(a, b, c, s, n) ==
    [v30 |-> a, v90 |-> b, v252 |-> c, selected |-> s, nrets |-> n]

\* lines 166-167
Selected(vs) == IF vs = <<>> THEN DefaultVol ELSE Mean(vs)

\* lines 118-170; n is len(rets)
calculate_hv(hrows) ==
    LET hist == SelectSeq(hrows, LAMBDA r : r.own)
        priced == SelectSeq(DropDuplicateDates(hist), LAMBDA r : r.last > 0)
        n == Len(priced) - 1
        v30 == IF n >= Hv30Window THEN SeriesStd(Hv30Window) ELSE NaN
        v90 == IF n >= Hv90Window THEN SeriesStd(Hv90Window) ELSE NaN
        v252 == SeriesStd(n)
        valid == SelectSeq(<<v30, v90, v252>>, LAMBDA v : v # NaN)
    IN  IF Len(hist) < 2 THEN HvTuple(NaN, NaN, NaN, NaN, 0)
        ELSE IF Len(priced) < 2 THEN HvTuple(NaN, NaN, NaN, NaN, 0)
        ELSE HvTuple(v30, v90, v252, Selected(valid), n)

\* build_chain lines 195-214 and 254: the hv_data of the underlying
hv_data(h) ==
    IF ~h.exists \/ h.rows = <<>>
      THEN HvTuple(NaN, NaN, NaN, DefaultVol, 0)
    ELSE IF ~\E k \in 1..Len(h.rows) : h.rows[k].own
      THEN HvTuple(NaN, NaN, NaN, DefaultVol, 0)
    ELSE calculate_hv(h.rows)

\* line 135, sort_values('date_int').drop_duplicates('date_int'): the sort
\* is numpy's quicksort, which leaves the order of the rows of one date
\* open, and drop_duplicates keeps the row that comes first.  A choice f
\* names, for every date with several rows, the row the sort puts first.
DuplicatedDates(hist) ==
    {d \in {hist[i].date : i \in 1..Len(hist)} :
        Cardinality({i \in 1..Len(hist) : hist[i].date = d}) >= 2}

SortChoices(hist) ==
    {f \in [DuplicatedDates(hist) -> 1..Len(hist)] :
        \A d \in DOMAIN f : hist[f[d]].date = d}

\* the series line 135 leaves under the choice f, ascending by date
DedupSeries(hist, f) ==
    LET sel == {i \in 1..Len(hist) :
                  hist[i].date \in DOMAIN f => f[hist[i].date] = i}
        rank == [i \in sel |->
                   Cardinality({j \in sel : hist[j].date < hist[i].date}) + 1]
    IN  [p \in 1..Cardinality(sel) |-> hist[CHOOSE i \in sel : rank[i] = p]]

\* lines 124-135: the series every outcome of the sort can leave; nothing
\* is sorted when fewer than 2 rows match
HvSeries(h) ==
    LET hist == IF h.exists THEN SelectSeq(h.rows, LAMBDA r : r.own) ELSE <<>>
    IN  IF Len(hist) < 2 THEN {<<>>}
        ELSE {DedupSeries(hist, f) : f \in SortChoices(hist)}

NoHvRet == [done |-> FALSE, hv |-> HvTuple(NaN, NaN, NaN, NaN, 0), kept |-> <<>>]

CallHv ==
    /\ ~hvRet.done
    /\ \E kept \in HvSeries(hvHist) :
         hvRet' = [done |-> TRUE, hv |-> hv_data(hvHist), kept |-> kept]
    /\ UNCHANGED <<priceArgs, priceRet, hvHist, extVars>>
    /\ UNCHANGED <<chainVars, gateVars, ivVars, updVars, statVars>>

\* ------------------------------------------------------------------------
\* chain_calculator.build_chain, the per-contract loop (lines 226-299) with
\* what it computes for a row: the IV, the sigma it prices with, the
\* theoretical price and the Greeks.  T is counted in days.
\* ------------------------------------------------------------------------
\* the arguments of line 253
IvArgs(r, und) ==
    [S |-> SpotOf(r, und), K |-> r.strike, T |-> r.remained_day, sigma |-> 0,
     price |-> r.real_time_price, typ |-> r.type]

\* line 253; with an empty price the objective of brentq is NaN and brentq
\* raises
RowIv(r, und) ==
    IF r.cells = "no_price" THEN NaN ELSE implied_volatility(IvArgs(r, und))

\* line 255 taking the historical volatility whatever the IV is
SigmaOf_AlwaysHv(iv, hv) == hv.selected

\* line 255: sigma = iv if pd.notna(iv) else hv_data[3]
SigmaOf(iv, hv) == IF iv # NaN THEN iv ELSE hv.selected

\* lines 258 and 262: bs_price and calculate_greeks called with sigma
Applied(name, a, sigma) ==
    [k |-> name, of |-> <<a.S, a.K, a.T, sigma, a.typ>>]

\* lines 264-294
PricedRow(r, und, hv) ==
    [contract_isin |-> ContractIsin(r), type |-> r.type, strike |-> r.strike,
     days_to_expiry |-> r.remained_day, market_price |-> r.real_time_price,
     has_price |-> r.cells # "no_price",
     underlying_price |-> SpotOf(r, und),
     iv |-> RowIv(r, und),
     sigma |-> SigmaOf(RowIv(r, und), hv),
     theoretical_price |->
       Applied("bs_price", IvArgs(r, und), SigmaOf(RowIv(r, und), hv)),
     greeks |->
       Applied("calculate_greeks", IvArgs(r, und), SigmaOf(RowIv(r, und), hv)),
     hv_selected |-> hv.selected]

\* lines 226-299: rows, the index of the live row of each, and skipped
ContractLoop(lrows, und, hv) ==
    LET appended == SelectSeq([i \in 1..Len(lrows) |-> i],
                              LAMBDA i : ~Skipped(lrows[i], und))
    IN  [done |-> TRUE,
         rows |-> [j \in 1..Len(appended) |->
                     PricedRow(lrows[appended[j]], und, hv)],
         from |-> appended,
         skipped |-> Cardinality({i \in 1..Len(lrows) : Skipped(lrows[i], und)})]

NoLoopRet == [done |-> FALSE, rows |-> <<>>, from |-> <<>>, skipped |-> 0]

NoCache == [loaded |-> FALSE, rows |-> <<>>]

NoResp == [done |-> FALSE, isin |-> 0, code |-> 0, error |-> "", rows |-> <<>>]

\* the loop run over the live table, with the spot of underlying_live.xlsx
\* and the hv_cache of the history
RunContractLoop ==
    /\ ~loopRet.done
    /\ liveFile.exists
    /\ loopRet' = ContractLoop(liveFile.rows, undLive, hv_data(hvHist))
    /\ UNCHANGED <<priceArgs, priceRet, hvHist, hvRet, procCalls, procRet,
                   cached_iv, ivResp>>
    /\ UNCHANGED <<chainVars, gateVars, ivVars, updVars, statVars>>

\* ------------------------------------------------------------------------
\* server/app.py: /api/iv/<option_isin> and /api/refresh.  cached_iv is the
\* global of line 40: not loaded is None, else the rows of the frame
\* ------------------------------------------------------------------------
\* the rows read_excel gives for the artifact
ArtifactRows(f) == IF f.exists /\ f.hasDate THEN f.rows ELSE <<>>

\* lines 188-190: the columns of the answer, without option_isin
Served(rec) ==
    [date |-> rec.date, option_price |-> rec.option_price,
     underlying_price |-> rec.underlying_price, strike |-> rec.strike,
     days_to_expiry |-> rec.days_to_expiry, type |-> rec.type]

\* lines 174-204 on the frame df (none is df is None)
Respond(none, rws, isin) ==
    LET df_f == iv_sort_values(SelectSeq(rws, LAMBDA rec : rec.option_isin = isin))
    IN  IF none \/ rws = <<>>
          THEN [done |-> TRUE, isin |-> isin, code |-> 404,
                error |-> "IV history not available", rows |-> <<>>]
        ELSE IF df_f = <<>>
          THEN [done |-> TRUE, isin |-> isin, code |-> 404,
                error |-> "Option ISIN not found", rows |-> <<>>]
        ELSE [done |-> TRUE, isin |-> isin, code |-> 200, error |-> "",
              rows |-> [i \in 1..Len(df_f) |-> Served(df_f[i])]]

\* lines 161-205: the file is read only while cached_iv is None or the
\* file is missing; otherwise the answer comes from cached_iv
api_iv(option_isin) ==
    /\ IF ~cached_iv.loaded \/ ~ivOutFile.exists
         THEN /\ cached_iv' = IF ivOutFile.exists
                                THEN [loaded |-> TRUE, rows |-> ArtifactRows(ivOutFile)]
                                ELSE cached_iv
              /\ ivResp' = Respond(~ivOutFile.exists, ArtifactRows(ivOutFile),
                                   option_isin)
         ELSE /\ ivResp' = Respond(FALSE, cached_iv.rows, option_isin)
              /\ UNCHANGED cached_iv
    /\ UNCHANGED <<priceArgs, priceRet, hvHist, hvRet, loopRet, procCalls, procRet>>
    /\ UNCHANGED <<chainVars, gateVars, ivVars, updVars, statVars>>

\* lines 207-215 (the cache of the chain is not part of the model)
api_refresh ==
    /\ cached_iv.loaded
    /\ cached_iv' = NoCache
    /\ UNCHANGED <<priceArgs, priceRet, hvHist, hvRet, loopRet, procCalls, procRet,
                   ivResp>>
    /\ UNCHANGED <<chainVars, gateVars, ivVars, updVars, statVars>>

\* ------------------------------------------------------------------------
\* DataUpdater.__init__
\* ------------------------------------------------------------------------
StepNames == <<"data_fetcher", "date_processor", "chain_calculator", "iv_calculator">>

IdleStatus == [kind |-> "Idle", succ |-> 0, total |-> 0]
RunningStatus == [kind |-> "Running...", succ |-> 0, total |-> 0]

\* the f-string of _run_pipeline line 100
FinalStatus_SuccessIfAny(sc, total) ==
    [kind |-> IF sc > 0 THEN "Success" ELSE "Failed", succ |-> sc, total |-> total]

FinalStatus(sc, total) ==
    [kind |-> IF sc = total THEN "Success" ELSE "Failed", succ |-> sc, total |-> total]

DataUpdaterInit ==
    /\ running = FALSE
    /\ thread = 0
    /\ status = IdleStatus
    /\ last_update = 0
    /\ last_run_start = 0
    /\ next_run_time = 0
    /\ lock = 0
    /\ now = 1
    /\ nthreads = 0
    /\ pc = [t \in Threads |-> "unborn"]
    /\ cur = [t \in Threads |-> 0]
    /\ wake = [t \in Threads |-> 0]
    /\ idx = [t \in Threads |-> 0]
    /\ success_count = [t \in Threads |-> 0]
    /\ start_time = [t \in Threads |-> 0]
    /\ end_time = [t \in Threads |-> 0]
    /\ cpc = "idle"
    /\ ran = [t \in Threads |-> <<>>]
    /\ raised = [t \in Threads |-> {}]
    /\ begunAfterStop = [t \in Threads |-> 0]

\* ------------------------------------------------------------------------
\* The clock
\* ------------------------------------------------------------------------
Tick ==
    /\ now < MaxTime
    /\ now' = now + 1
    /\ UNCHANGED <<running, thread, status, last_update, last_run_start,
                   next_run_time, lock, nthreads, pc, cur, wake, idx,
                   success_count, start_time, end_time, cpc, ran, raised,
                   begunAfterStop>>
    /\ UNCHANGED <<chainVars, gateVars, ivVars, calcVars, statVars>>

\* ------------------------------------------------------------------------
\* DataUpdater.start (the calling thread)
\* ------------------------------------------------------------------------
CallStart ==
    /\ cpc = "idle"
    /\ running \/ nthreads < MaxThreads
    /\ cpc' = "start_111"
    /\ UNCHANGED <<running, thread, status, last_update, last_run_start,
                   next_run_time, lock, now, nthreads, pc, cur, wake, idx,
                   success_count, start_time, end_time, ran, raised,
                   begunAfterStop>>
    /\ UNCHANGED <<chainVars, gateVars, ivVars, calcVars, statVars>>

\* lines 111-115 without the guard of line 111
Start111_NoGuard ==
    /\ cpc = "start_111"
    /\ nthreads < MaxThreads
    /\ running' = TRUE
    /\ begunAfterStop' = [t \in Threads |-> 0]
    /\ cpc' = "start_116"
    /\ UNCHANGED <<thread, status, last_update, last_run_start,
                   next_run_time, lock, now, nthreads, pc, cur, wake, idx,
                   success_count, start_time, end_time, ran, raised>>
    /\ UNCHANGED <<chainVars, gateVars, ivVars, calcVars, statVars>>

\* lines 111-115: if self.running: return; self.running = True
Start111 ==
    /\ cpc = "start_111"
    /\ IF running
         THEN /\ cpc' = "idle"
              /\ UNCHANGED <<running, begunAfterStop>>
         ELSE /\ running' = TRUE
              /\ begunAfterStop' = [t \in Threads |-> 0]
              /\ cpc' = "start_116"
    /\ UNCHANGED <<thread, status, last_update, last_run_start,
                   next_run_time, lock, now, nthreads, pc, cur, wake, idx,
                   success_count, start_time, end_time, ran, raised>>
    /\ UNCHANGED <<chainVars, gateVars, ivVars, calcVars, statVars>>

\* line 116: self._next_run_time = time.time(), written without the lock
Start116 ==
    /\ cpc = "start_116"
    /\ next_run_time' = now
    /\ cpc' = "start_117"
    /\ UNCHANGED <<running, thread, status, last_update, last_run_start,
                   lock, now, nthreads, pc, cur, wake, idx, success_count,
                   start_time, end_time, ran, raised, begunAfterStop>>
    /\ UNCHANGED <<chainVars, gateVars, ivVars, calcVars, statVars>>

\* lines 117-118: a new Thread(target=self._updater_loop), started
Start117 ==
    /\ cpc = "start_117"
    /\ nthreads < MaxThreads
    /\ nthreads' = nthreads + 1
    /\ thread' = nthreads + 1
    /\ pc' = [pc EXCEPT ![nthreads + 1] = "loop_check"]
    /\ cpc' = "idle"
    /\ UNCHANGED <<running, status, last_update, last_run_start,
                   next_run_time, lock, now, cur, wake, idx, success_count,
                   start_time, end_time, ran, raised, begunAfterStop>>
    /\ UNCHANGED <<chainVars, gateVars, ivVars, calcVars, statVars>>

\* ------------------------------------------------------------------------
\* DataUpdater.stop (the calling thread)
\* ------------------------------------------------------------------------
CallStop ==
    /\ cpc = "idle"
    /\ cpc' = "stop_123"
    /\ UNCHANGED <<running, thread, status, last_update, last_run_start,
                   next_run_time, lock, now, nthreads, pc, cur, wake, idx,
                   success_count, start_time, end_time, ran, raised,
                   begunAfterStop>>
    /\ UNCHANGED <<chainVars, gateVars, ivVars, calcVars, statVars>>

\* lines 123-127: if not self.running: return; self.running = False
Stop123 ==
    /\ cpc = "stop_123"
    /\ IF ~running
         THEN /\ cpc' = "idle"
              /\ UNCHANGED running
         ELSE /\ running' = FALSE
              /\ cpc' = IF thread # 0 THEN "stop_join" ELSE "idle"
    /\ UNCHANGED <<thread, status, last_update, last_run_start,
                   next_run_time, lock, now, nthreads, pc, cur, wake, idx,
                   success_count, start_time, end_time, ran, raised,
                   begunAfterStop>>
    /\ UNCHANGED <<chainVars, gateVars, ivVars, calcVars, statVars>>

\* line 128: join returns because the thread ended
StopJoinDone ==
    /\ cpc = "stop_join"
    /\ pc[thread] = "dead"
    /\ cpc' = "idle"
    /\ UNCHANGED <<running, thread, status, last_update, last_run_start,
                   next_run_time, lock, now, nthreads, pc, cur, wake, idx,
                   success_count, start_time, end_time, ran, raised,
                   begunAfterStop>>
    /\ UNCHANGED <<chainVars, gateVars, ivVars, calcVars, statVars>>

\* line 128: join(timeout=15) gives up; only a sleep (up to the interval)
\* or a stage (network fetches) keeps the thread alive that long
StopJoinTimeout ==
    /\ cpc = "stop_join"
    /\ pc[thread] \in {"sleeping", "in_stage"}
    /\ cpc' = "idle"
    /\ UNCHANGED <<running, thread, status, last_update, last_run_start,
                   next_run_time, lock, now, nthreads, pc, cur, wake, idx,
                   success_count, start_time, end_time, ran, raised,
                   begunAfterStop>>
    /\ UNCHANGED <<chainVars, gateVars, ivVars, calcVars, statVars>>

\* ------------------------------------------------------------------------
\* DataUpdater._updater_loop (a loop thread t)
\* ------------------------------------------------------------------------
\* line 133 as "while True"
LoopCheck_NoExit(t) ==
    /\ pc[t] = "loop_check"
    /\ pc' = [pc EXCEPT ![t] = "decide"]
    /\ UNCHANGED <<running, thread, status, last_update, last_run_start,
                   next_run_time, lock, now, nthreads, cur, wake, idx,
                   success_count, start_time, end_time, cpc, ran, raised,
                   begunAfterStop>>
    /\ UNCHANGED <<chainVars, gateVars, ivVars, calcVars, statVars>>

\* line 133: while self.running
LoopCheck(t) ==
    /\ pc[t] = "loop_check"
    /\ pc' = [pc EXCEPT ![t] = IF running THEN "decide" ELSE "dead"]
    /\ UNCHANGED <<running, thread, status, last_update, last_run_start,
                   next_run_time, lock, now, nthreads, cur, wake, idx,
                   success_count, start_time, end_time, cpc, ran, raised,
                   begunAfterStop>>
    /\ UNCHANGED <<chainVars, gateVars, ivVars, calcVars, statVars>>

\* line 135 running whatever the time is
RunIsDue_Always(current_time, next) == TRUE

\* line 135: if current_time >= self._next_run_time
RunIsDue(current_time, next) == current_time >= next

\* lines 134-136 and 73: current_time = time.time(); the comparison with
\* _next_run_time; on the run branch _run_pipeline is entered and takes
\* start_time
Decide(t) ==
    /\ pc[t] = "decide"
    /\ IF RunIsDue(now, next_run_time)
         THEN /\ pc' = [pc EXCEPT ![t] = "p_lock1"]
              /\ start_time' = [start_time EXCEPT ![t] = now]
              /\ begunAfterStop' =
                   [begunAfterStop EXCEPT
                      ![t] = IF running THEN @ ELSE IF @ < 2 THEN @ + 1 ELSE @]
              /\ UNCHANGED cur
         ELSE /\ pc' = [pc EXCEPT ![t] = "calc_sleep"]
              /\ cur' = [cur EXCEPT ![t] = now]
              /\ UNCHANGED <<start_time, begunAfterStop>>
    /\ UNCHANGED <<running, thread, status, last_update, last_run_start,
                   next_run_time, lock, now, nthreads, wake, idx,
                   success_count, end_time, cpc, ran, raised>>
    /\ UNCHANGED <<chainVars, gateVars, ivVars, calcVars, statVars>>

\* lines 142-143: sleep_time = max(1, self._next_run_time - current_time)
CalcSleep(t) ==
    /\ pc[t] = "calc_sleep"
    /\ wake' = [wake EXCEPT ![t] = now + Max(1, next_run_time - cur[t])]
    /\ cur' = [cur EXCEPT ![t] = 0]
    /\ pc' = [pc EXCEPT ![t] = "sleeping"]
    /\ UNCHANGED <<running, thread, status, last_update, last_run_start,
                   next_run_time, lock, now, nthreads, idx, success_count,
                   start_time, end_time, cpc, ran, raised, begunAfterStop>>
    /\ UNCHANGED <<chainVars, gateVars, ivVars, calcVars, statVars>>

\* line 143: time.sleep returns
WakeUp(t) ==
    /\ pc[t] = "sleeping"
    /\ now >= wake[t]
    /\ wake' = [wake EXCEPT ![t] = 0]
    /\ pc' = [pc EXCEPT ![t] = "loop_check"]
    /\ UNCHANGED <<running, thread, status, last_update, last_run_start,
                   next_run_time, lock, now, nthreads, cur, idx,
                   success_count, start_time, end_time, cpc, ran, raised,
                   begunAfterStop>>
    /\ UNCHANGED <<chainVars, gateVars, ivVars, calcVars, statVars>>

\* line 138: with self.lock
LoopLock3(t) ==
    /\ pc[t] = "l_lock3"
    /\ lock = 0
    /\ lock' = t
    /\ pc' = [pc EXCEPT ![t] = "l_write3"]
    /\ UNCHANGED <<running, thread, status, last_update, last_run_start,
                   next_run_time, now, nthreads, cur, wake, idx,
                   success_count, start_time, end_time, cpc, ran, raised,
                   begunAfterStop>>
    /\ UNCHANGED <<chainVars, gateVars, ivVars, calcVars, statVars>>

\* line 139: self._next_run_time = time.time() + self.interval
LoopWrite3(t) ==
    /\ pc[t] = "l_write3"
    /\ next_run_time' = now + Interval
    /\ lock' = 0
    /\ pc' = [pc EXCEPT ![t] = "loop_check"]
    /\ UNCHANGED <<running, thread, status, last_update, last_run_start,
                   now, nthreads, cur, wake, idx, success_count,
                   start_time, end_time, cpc, ran, raised, begunAfterStop>>
    /\ UNCHANGED <<chainVars, gateVars, ivVars, calcVars, statVars>>

\* ------------------------------------------------------------------------
\* DataUpdater._run_pipeline and _run_step (a loop thread t)
\* ------------------------------------------------------------------------
\* line 79: with self.lock
RunLock1(t) ==
    /\ pc[t] = "p_lock1"
    /\ lock = 0
    /\ lock' = t
    /\ pc' = [pc EXCEPT ![t] = "p_write1"]
    /\ UNCHANGED <<running, thread, status, last_update, last_run_start,
                   next_run_time, now, nthreads, cur, wake, idx,
                   success_count, start_time, end_time, cpc, ran, raised,
                   begunAfterStop>>
    /\ UNCHANGED <<chainVars, gateVars, ivVars, calcVars, statVars>>

\* lines 79-81 keeping the lock after the with block
LockAfterWith_Held(t) == t

\* lines 79-81: the with block releases the lock
LockAfterWith(t) == 0

\* lines 80-87: status and last_run_start under the lock, success_count = 0,
\* and the first stage is entered
RunWrite1(t) ==
    /\ pc[t] = "p_write1"
    /\ status' = RunningStatus
    /\ last_run_start' = start_time[t]
    /\ lock' = LockAfterWith(t)
    /\ start_time' = [start_time EXCEPT ![t] = 0]
    /\ success_count' = [success_count EXCEPT ![t] = 0]
    /\ idx' = [idx EXCEPT ![t] = 1]
    /\ ran' = [ran EXCEPT ![t] = <<StepNames[1]>>]
    /\ raised' = [raised EXCEPT ![t] = {}]
    /\ pc' = [pc EXCEPT ![t] = "in_stage"]
    /\ UNCHANGED <<running, thread, last_update, next_run_time, now,
                   nthreads, cur, wake, end_time, cpc, begunAfterStop>>
    /\ UNCHANGED <<chainVars, gateVars, ivVars, calcVars, statVars>>

\* _run_step, lines 58-69: True when main() returned, False when it raised
RunStepCounts_Always(ok) == 1

RunStepCounts(ok) == IF ok THEN 1 ELSE 0

\* the for loop of lines 86-91 leaving at the first failed stage
MoreStages_StopOnFailure(t, ok) == ok /\ idx[t] < NumSteps

\* the for loop of lines 86-91: a next stage whatever _run_step returned
MoreStages(t, ok) == idx[t] < NumSteps

\* lines 86-96: the stage at idx returns (ok) or raises an Exception
\* (~ok), which _run_step catches; the next stage is entered, or after the
\* last one end_time is taken
StageDone(t, ok) ==
    /\ pc[t] = "in_stage"
    /\ success_count' = [success_count EXCEPT ![t] = @ + RunStepCounts(ok)]
    /\ raised' = [raised EXCEPT ![t] = IF ok THEN @ ELSE @ \cup {idx[t]}]
    /\ IF MoreStages(t, ok)
         THEN /\ idx' = [idx EXCEPT ![t] = @ + 1]
              /\ ran' = [ran EXCEPT ![t] = Append(@, StepNames[idx[t] + 1])]
              /\ UNCHANGED <<pc, end_time>>
         ELSE /\ end_time' = [end_time EXCEPT ![t] = now]
              /\ pc' = [pc EXCEPT ![t] = "p_lock2"]
              /\ UNCHANGED <<idx, ran>>
    /\ UNCHANGED <<running, thread, status, last_update, last_run_start,
                   next_run_time, lock, now, nthreads, cur, wake,
                   start_time, cpc, begunAfterStop>>
    /\ UNCHANGED <<chainVars, gateVars, ivVars, calcVars, statVars>>

\* lines 58-69 and 86-87, 136: main() raises an exception that is no
\* Exception (SystemExit, KeyboardInterrupt, GeneratorExit); the handler of
\* line 66 does not catch it, neither _run_pipeline nor _updater_loop has
\* one, and the thread ends inside the run
StageExits(t) ==
    /\ pc[t] = "in_stage"
    /\ pc' = [pc EXCEPT ![t] = "dead"]
    /\ UNCHANGED <<running, thread, status, last_update, last_run_start,
                   next_run_time, lock, now, nthreads, cur, wake, idx,
                   success_count, start_time, end_time, cpc, ran, raised,
                   begunAfterStop>>
    /\ UNCHANGED <<chainVars, gateVars, ivVars, calcVars, statVars>>

\* line 98: with self.lock
RunLock2(t) ==
    /\ pc[t] = "p_lock2"
    /\ lock = 0
    /\ lock' = t
    /\ pc' = [pc EXCEPT ![t] = "p_write2"]
    /\ UNCHANGED <<running, thread, status, last_update, last_run_start,
                   next_run_time, now, nthreads, cur, wake, idx,
                   success_count, start_time, end_time, cpc, ran, raised,
                   begunAfterStop>>
    /\ UNCHANGED <<chainVars, gateVars, ivVars, calcVars, statVars>>

\* lines 99-101: last_update, status, _next_run_time under the lock
RunWrite2(t) ==
    /\ pc[t] = "p_write2"
    /\ last_update' = end_time[t]
    /\ status' = FinalStatus(success_count[t], NumSteps)
    /\ next_run_time' = end_time[t] + Interval
    /\ lock' = 0
    /\ end_time' = [end_time EXCEPT ![t] = 0]
    /\ success_count' = [success_count EXCEPT ![t] = 0]
    /\ idx' = [idx EXCEPT ![t] = 0]
    /\ ran' = [ran EXCEPT ![t] = <<>>]
    /\ raised' = [raised EXCEPT ![t] = {}]
    /\ pc' = [pc EXCEPT ![t] = "l_lock3"]
    /\ UNCHANGED <<running, thread, last_run_start, now, nthreads, cur,
                   wake, start_time, cpc, begunAfterStop>>
    /\ UNCHANGED <<chainVars, gateVars, ivVars, calcVars, statVars>>

\* ------------------------------------------------------------------------
\* DataUpdater.get_status (a request thread of the web server)
\* ------------------------------------------------------------------------
\* the holder id of the request thread
Reader == MaxThreads + 1

NoSnap == [done |-> FALSE, status |-> IdleStatus, last_update |-> 0,
           next_update_in_seconds |-> 0, interval_seconds |-> 0,
           busy |-> FALSE]

\* line 149: max(0, int(self._next_run_time - now)) if
\* self._next_run_time > 0 else self.interval
NextIn(nrt, t) == IF nrt > 0 THEN Max(0, nrt - t) ELSE Interval

\* line 147: with self.lock
StatusLock ==
    /\ qpc = "idle"
    /\ lock = 0
    /\ lock' = Reader
    /\ qpc' = "q_read"
    /\ snap' = NoSnap
    /\ UNCHANGED <<running, thread, status, last_update, last_run_start,
                   next_run_time, now, nthreads, pc, cur, wake, idx,
                   success_count, start_time, end_time, cpc, ran, raised,
                   begunAfterStop>>
    /\ UNCHANGED <<chainVars, gateVars, ivVars, calcVars>>

\* lines 148-155: the snapshot (last_update 0 reads "Never"); busy tells
\* whether a stage was executing when it was taken
StatusRead ==
    /\ qpc = "q_read"
    /\ snap' = [done |-> TRUE, status |-> status, last_update |-> last_update,
                next_update_in_seconds |-> NextIn(next_run_time, now),
                interval_seconds |-> Interval,
                busy |-> \E t \in Threads : pc[t] = "in_stage"]
    /\ lock' = 0
    /\ qpc' = "idle"
    /\ UNCHANGED <<running, thread, status, last_update, last_run_start,
                   next_run_time, now, nthreads, pc, cur, wake, idx,
                   success_count, start_time, end_time, cpc, ran, raised,
                   begunAfterStop>>
    /\ UNCHANGED <<chainVars, gateVars, ivVars, calcVars>>

\* ------------------------------------------------------------------------
\* The scheduler
\* ------------------------------------------------------------------------
NextUpdater ==
    \/ Tick
    \/ CallStart
    \/ Start111
    \/ Start116
    \/ Start117
    \/ CallStop
    \/ Stop123
    \/ StopJoinDone
    \/ StopJoinTimeout
    \/ \E t \in Threads : LoopCheck(t)
    \/ \E t \in Threads : Decide(t)
    \/ \E t \in Threads : CalcSleep(t)
    \/ \E t \in Threads : WakeUp(t)
    \/ \E t \in Threads : RunLock1(t)
    \/ \E t \in Threads : RunWrite1(t)
    \/ \E t \in Threads : \E ok \in BOOLEAN : StageDone(t, ok)
    \/ \E t \in Threads : RunLock2(t)
    \/ \E t \in Threads : RunWrite2(t)
    \/ \E t \in Threads : LoopLock3(t)
    \/ \E t \in Threads : LoopWrite3(t)

\* ------------------------------------------------------------------------
\* The chain stage on its own: the feed, the fetch and build_chain, from a
\* fresh Output directory
\* ------------------------------------------------------------------------
Prices == {0, 5}

Spots == {0, 10}

FeedRecords ==
    {[strike |-> k, days |-> d, end |-> d, priceP |-> p, hasCall |-> FALSE,
      priceC |-> 0] :
        k \in 1..MaxStrike, d \in 0..MaxDays, p \in Prices}
    \cup
    {[strike |-> k, days |-> d, end |-> d, priceP |-> p, hasCall |-> TRUE,
      priceC |-> c] :
        k \in 1..MaxStrike, d \in 0..MaxDays, p \in {5}, c \in Prices}

Feeds == UNION {[1..n -> FeedRecords] : n \in 0..MaxRecords}

NoQuote == [exists |-> FALSE, price |-> 0]

Quotes == {NoQuote} \cup {[exists |-> TRUE, price |-> s] : s \in Spots}

ChainIdle ==
    /\ feed = <<>>
    /\ spotUA = 0
    /\ undLive = NoQuote
    /\ liveFile = NoWorkbook
    /\ outFile = NoWorkbook
    /\ hashFile = NoSidecar
    /\ calls = 0
    /\ chainRet = "none"
    /\ prevLive = NoWorkbook
    /\ sameInput = FALSE
    /\ builtFrom = <<>>

GatesIdle ==
    /\ ivOutFile = NoTable
    /\ histOptFile = NoTable
    /\ dateFile = NoTable
    /\ flagFile = NoFlag
    /\ gateChain = NoAnswer
    /\ gateIV = NoAnswer
    /\ gateDate = NoAnswer

IvIdle ==
    /\ histUndFile = NoHistory
    /\ ivCalls = 0
    /\ ivRet = "none"

ExtIdle ==
    /\ loopRet = NoLoopRet
    /\ procCalls = 0
    /\ procRet = "none"
    /\ cached_iv = NoCache
    /\ ivResp = NoResp

CalcIdle ==
    /\ priceArgs = [S |-> 0, K |-> 0, T |-> 0, sigma |-> 0, price |-> 0,
                    typ |-> "CALL"]
    /\ priceRet = NoPriceRet
    /\ hvHist = NoHistory
    /\ hvRet = NoHvRet
    /\ ExtIdle

StatusIdle ==
    /\ qpc = "idle"
    /\ snap = NoSnap

InitUpdater ==
    DataUpdaterInit /\ ChainIdle /\ GatesIdle /\ IvIdle /\ CalcIdle /\ StatusIdle

SpecUpdater == InitUpdater /\ [][NextUpdater]_vars

\* ------------------------------------------------------------------------
\* The status surface: the server as run.py and app.py run it (start() at
\* startup, stop() only at shutdown) with a request thread asking
\* get_status at any moment
\* ------------------------------------------------------------------------
NextStatus ==
    \/ Tick
    \/ CallStart
    \/ Start111
    \/ Start116
    \/ Start117
    \/ \E t \in Threads : LoopCheck(t)
    \/ \E t \in Threads : Decide(t)
    \/ \E t \in Threads : CalcSleep(t)
    \/ \E t \in Threads : WakeUp(t)
    \/ \E t \in Threads : RunLock1(t)
    \/ \E t \in Threads : RunWrite1(t)
    \/ \E t \in Threads : \E ok \in BOOLEAN : StageDone(t, ok)
    \/ \E t \in Threads : RunLock2(t)
    \/ \E t \in Threads : RunWrite2(t)
    \/ \E t \in Threads : LoopLock3(t)
    \/ \E t \in Threads : LoopWrite3(t)
    \/ StatusLock
    \/ StatusRead

SpecStatus == InitUpdater /\ [][NextStatus]_vars

\* ------------------------------------------------------------------------
\* The same server with stages of any behaviour: the scripts of self.steps
\* are loaded from disk at every run (lines 39-51), and their main() may
\* return, raise an Exception, or raise an exception of another kind
\* ------------------------------------------------------------------------
NextStages ==
    \/ NextStatus
    \/ \E t \in Threads : StageExits(t)

SpecStages == InitUpdater /\ [][NextStages]_vars

InitChain ==
    /\ DataUpdaterInit
    /\ GatesIdle
    /\ IvIdle
    /\ CalcIdle
    /\ StatusIdle
    /\ feed \in Feeds
    /\ spotUA \in Spots
    /\ undLive \in Quotes
    /\ liveFile = NoWorkbook
    /\ outFile = NoWorkbook
    /\ hashFile = NoSidecar
    /\ calls = 0
    /\ chainRet = "none"
    /\ prevLive = NoWorkbook
    /\ sameInput = FALSE
    /\ builtFrom = <<>>

NextChain ==
    \/ fetch_options_live
    \/ NextDay
    \/ build_chain

SpecChain == InitChain /\ [][NextChain]_vars

\* ------------------------------------------------------------------------
\* The three gates on their own, over an Output directory in any state:
\* each file present or absent, each sidecar readable or not
\* ------------------------------------------------------------------------
GateFeed ==
    <<[strike |-> 1, days |-> 1, end |-> 1, priceP |-> 5, hasCall |-> FALSE,
       priceC |-> 0]>>

GateLives ==
    {[exists |-> TRUE, rows |-> LiveRowsOf(GateFeed, 10), stamp |-> s] :
        s \in 1..MaxFetches}

GateOuts ==
    {NoWorkbook,
     [exists |-> TRUE,
      rows |-> sort_values(ProcessRows(LiveRowsOf(GateFeed, 10), NoQuote)),
      stamp |-> 0]}

GateHashes ==
    {NoSidecar, UnreadableSidecar, [state |-> "text", text |-> JunkText]}
    \cup {[state |-> "text", text |-> file_hash(l)] : l \in GateLives}

GateTables ==
    {NoTable, BlankTable, Table(<<>>)} \cup {Table(<<d>>) : d \in 0..MaxDate}

GateFlags ==
    {NoFlag, UnreadableFlag, Flag(JunkFlag)}
    \cup {Flag(IntText(n)) : n \in 1..MaxDate}

InitGates ==
    /\ DataUpdaterInit
    /\ IvIdle
    /\ CalcIdle
    /\ StatusIdle
    /\ feed = <<>>
    /\ spotUA = 0
    /\ undLive = NoQuote
    /\ liveFile \in {NoWorkbook} \cup GateLives
    /\ outFile \in GateOuts
    /\ hashFile \in GateHashes
    /\ calls = 0
    /\ chainRet = "none"
    /\ prevLive = NoWorkbook
    /\ sameInput = FALSE
    /\ builtFrom = <<>>
    /\ ivOutFile \in GateTables
    /\ histOptFile \in GateTables
    /\ dateFile \in GateTables
    /\ flagFile \in GateFlags
    /\ gateChain = NoAnswer
    /\ gateIV = NoAnswer
    /\ gateDate = NoAnswer

NextGates ==
    \/ AskChainGate
    \/ AskIVGate
    \/ AskDateGate

SpecGates == InitGates /\ [][NextGates]_vars

\* ------------------------------------------------------------------------
\* The two builds over an Output directory in any state: each input file
\* present or absent, an earlier artifact present or absent
\* ------------------------------------------------------------------------
\* the date cell of the day d of the model as date_processor leaves it:
\* day 1 is 1404/06/31, the last day of a month, day 2 is 1404/07/01
DateCode(d) ==
    IF d = 0 THEN 0
    ELSE IF d = 1 THEN JalaliText(14040631)
    ELSE JalaliText(14040700 + (d - 1))

IvFeeds ==
    {<<[strike |-> 1, days |-> 1, end |-> e, priceP |-> 5, hasCall |-> c,
        priceC |-> IF c THEN 5 ELSE 0]>> :
        e \in {0, DateCode(MaxDate)}, c \in BOOLEAN}

IvLives ==
    {[exists |-> TRUE, rows |-> LiveRowsOf(fd, 10), stamp |-> 1] : fd \in IvFeeds}

\* rows of a contract of the map that carry no price: they count in the
\* total of line 144 and give no record
Filler(n) ==
    [i \in 1..n |-> [source_isin |-> PutCode(1), date |-> DateCode(1), last |-> 0]]

HistRows ==
    {[source_isin |-> c, date |-> DateCode(d), last |-> 5] :
        c \in {PutCode(1), CallCode(1), PutCode(2)}, d \in 0..MaxDate}

HistTails == UNION {[1..n -> HistRows] : n \in 0..MaxTail}

HistTables ==
    {RowsTable(Filler(n) \o tl) : n \in {0, FillerRows}, tl \in HistTails}

UndRows == {[date |-> DateCode(d), last |-> p] : d \in 1..MaxDate, p \in {0, 10}}

UndTables ==
    {NoHistory, [exists |-> TRUE, rows |-> <<>>]}
    \cup {[exists |-> TRUE, rows |-> <<u>>] : u \in UndRows}
    \cup {[exists |-> TRUE, rows |-> <<u, v>>] : u \in UndRows, v \in UndRows}

InitBuilds ==
    /\ DataUpdaterInit
    /\ StatusIdle
    /\ CalcIdle
    /\ feed = <<>>
    /\ spotUA = 0
    /\ undLive = NoQuote
    /\ liveFile \in {NoWorkbook} \cup IvLives
    /\ outFile \in GateOuts
    /\ hashFile = NoSidecar
    /\ calls = 0
    /\ chainRet = "none"
    /\ prevLive = NoWorkbook
    /\ sameInput = FALSE
    /\ builtFrom = <<>>
    /\ ivOutFile \in {NoTable, BlankTable}
    /\ histOptFile \in {NoTable} \cup HistTables
    /\ histUndFile \in UndTables
    /\ dateFile = NoTable
    /\ flagFile = NoFlag
    /\ gateChain = NoAnswer
    /\ gateIV = NoAnswer
    /\ gateDate = NoAnswer
    /\ ivCalls = 0
    /\ ivRet = "none"

NextBuilds ==
    \/ build_chain
    \/ build_iv_history

SpecBuilds == InitBuilds /\ [][NextBuilds]_vars

\* ------------------------------------------------------------------------
\* The pricing functions applied to arguments of every sign
\* ------------------------------------------------------------------------
Signs == {0 - 1, 0, 1}

PriceArgSets ==
    [S : Signs, K : Signs, T : Signs, sigma : (0 - 1)..(MinIvCenti + 1),
     price : Signs, typ : {"CALL", "PUT"}]

InitPricing ==
    /\ DataUpdaterInit
    /\ StatusIdle
    /\ ChainIdle
    /\ GatesIdle
    /\ IvIdle
    /\ priceArgs \in PriceArgSets
    /\ priceRet = NoPriceRet
    /\ hvHist = NoHistory
    /\ hvRet = NoHvRet
    /\ ExtIdle

NextPricing ==
    \/ CallBsPrice
    \/ CallImpliedVolatility
    \/ CallGreeks

SpecPricing == InitPricing /\ [][NextPricing]_vars

\* ------------------------------------------------------------------------
\* calculate_hv applied to histories of every length
\* ------------------------------------------------------------------------
\* good valid rows of the underlying at the dates 1..good, then bad rows of
\* it without a price, dup rows of a later hour of the date 1, and other
\* rows of another underlying; the file is ordered by (isin, date, hour) as
\* data_fetcher saves it
HistoryOf(good, bad, dup, other) ==
    LET daily == [i \in 1..good |-> [own |-> TRUE, date |-> i, hour |-> 1, last |-> 1]]
                 \o [i \in 1..bad |->
                       [own |-> TRUE, date |-> good + i, hour |-> 1, last |-> 0]]
        later == [i \in 1..dup |-> [own |-> TRUE, date |-> 1, hour |-> 1 + i, last |-> 1]]
    IN  (IF daily = <<>> THEN later
         ELSE <<Head(daily)>> \o later \o Tail(daily))
        \o [i \in 1..other |-> [own |-> FALSE, date |-> i, hour |-> 1, last |-> 1]]

Histories ==
    {NoHistory}
    \cup {[exists |-> TRUE, rows |-> HistoryOf(g, b, d, o)] :
            g \in 0..MaxHistRows, b \in 0..MaxBad, d \in 0..1, o \in 0..1}

InitHV ==
    /\ DataUpdaterInit
    /\ StatusIdle
    /\ ChainIdle
    /\ GatesIdle
    /\ IvIdle
    /\ priceArgs = [S |-> 0, K |-> 0, T |-> 0, sigma |-> 0, price |-> 0,
                    typ |-> "CALL"]
    /\ priceRet = NoPriceRet
    /\ hvHist \in Histories
    /\ hvRet = NoHvRet
    /\ ExtIdle

NextHV == CallHv

SpecHV == InitHV /\ [][NextHV]_vars


\* ------------------------------------------------------------------------
\* process_file called up to MaxProcess times on a workbook of raw dates
\* ------------------------------------------------------------------------
\* the raw date of the day d: 20250903 for day 1
RawDate(d) == 20250902 + d

\* an empty cell and the raw dates
RawCells == {0} \cup {RawDate(d) : d \in 1..MaxDate}

RawTables ==
    {NoTable, BlankTable, Table(<<>>)}
    \cup {Table(<<c>>) : c \in RawCells}
    \cup {Table(<<c, d>>) : c \in RawCells, d \in RawCells}

RawFlags ==
    {NoFlag, UnreadableFlag, Flag(JunkFlag)}
    \cup {Flag(IntText(RawDate(d))) : d \in 1..MaxDate}

InitDates ==
    /\ DataUpdaterInit
    /\ StatusIdle
    /\ ChainIdle
    /\ IvIdle
    /\ CalcIdle
    /\ ivOutFile = NoTable
    /\ histOptFile = NoTable
    /\ dateFile \in RawTables
    /\ flagFile \in RawFlags
    /\ gateChain = NoAnswer
    /\ gateIV = NoAnswer
    /\ gateDate = NoAnswer

NextDates == process_file

SpecDates == InitDates /\ [][NextDates]_vars

\* ------------------------------------------------------------------------
\* The IV artifact served while builds rewrite it: an Output directory with
\* the three inputs, and no artifact, an empty one or the one of an
\* earlier build
\* ------------------------------------------------------------------------
OldArtifact ==
    RowsTable(<<[option_isin |-> PutCode(1), date |-> DateCode(1),
                 option_price |-> 1, underlying_price |-> 10, strike |-> 1,
                 days_to_expiry |-> 70, type |-> "PUT"]>>)

ServeHists ==
    {RowsTable(Filler(FillerRows) \o <<h>>) : h \in HistRows}

ServeUnds == {[exists |-> TRUE, rows |-> <<u>>] : u \in UndRows}

ServeIsins == {PutCode(1), CallCode(1)}

InitServe ==
    /\ DataUpdaterInit
    /\ StatusIdle
    /\ CalcIdle
    /\ feed = <<>>
    /\ spotUA = 0
    /\ undLive = NoQuote
    /\ liveFile \in IvLives
    /\ outFile = NoWorkbook
    /\ hashFile = NoSidecar
    /\ calls = 0
    /\ chainRet = "none"
    /\ prevLive = NoWorkbook
    /\ sameInput = FALSE
    /\ builtFrom = <<>>
    /\ ivOutFile \in {NoTable, BlankTable, OldArtifact}
    /\ histOptFile \in ServeHists
    /\ histUndFile \in ServeUnds
    /\ dateFile = NoTable
    /\ flagFile = NoFlag
    /\ gateChain = NoAnswer
    /\ gateIV = NoAnswer
    /\ gateDate = NoAnswer
    /\ ivCalls = 0
    /\ ivRet = "none"

NextServe ==
    \/ build_iv_history
    \/ \E i \in ServeIsins : api_iv(i)
    \/ api_refresh

SpecServe == InitServe /\ [][NextServe]_vars

\* ------------------------------------------------------------------------
\* The per-contract loop applied to live tables of up to MaxRecords rows of
\* every kind
\* ------------------------------------------------------------------------
LoopPrices == {0, 1, 20}

LoopRows ==
    {[isin_put |-> 1, isin_call |-> 2, type |-> ty, real_time_price |-> p,
      strike |-> MaxStrike, remained_day |-> d, end_date |-> 1,
      underlying_real_time_price |-> sp, underlying_isin |-> u, cells |-> c] :
        ty \in {"PUT", "CALL"}, p \in LoopPrices, d \in 0..1, sp \in Spots,
        u \in 0..1, c \in {"ok", "bad_number"}}
    \cup
    {[isin_put |-> 1, isin_call |-> 2, type |-> ty, real_time_price |-> 0,
      strike |-> MaxStrike, remained_day |-> d, end_date |-> 1,
      underlying_real_time_price |-> sp, underlying_isin |-> u,
      cells |-> "no_price"] :
        ty \in {"PUT", "CALL"}, d \in 0..1, sp \in Spots, u \in 0..1}

LoopLives ==
    {[exists |-> TRUE, rows |-> rws, stamp |-> 1] :
        rws \in UNION {[1..n -> LoopRows] : n \in 0..MaxRecords}}

InitLoop ==
    /\ DataUpdaterInit
    /\ StatusIdle
    /\ GatesIdle
    /\ IvIdle
    /\ feed = <<>>
    /\ spotUA = 0
    /\ undLive \in {NoQuote, [exists |-> TRUE, price |-> 10]}
    /\ liveFile \in LoopLives
    /\ outFile = NoWorkbook
    /\ hashFile = NoSidecar
    /\ calls = 0
    /\ chainRet = "none"
    /\ prevLive = NoWorkbook
    /\ sameInput = FALSE
    /\ builtFrom = <<>>
    /\ priceArgs = [S |-> 0, K |-> 0, T |-> 0, sigma |-> 0, price |-> 0,
                    typ |-> "CALL"]
    /\ priceRet = NoPriceRet
    /\ hvHist \in {NoHistory,
                   [exists |-> TRUE, rows |-> HistoryOf(1, 0, 0, 0)],
                   [exists |-> TRUE, rows |-> HistoryOf(3, 0, 0, 0)]}
    /\ hvRet = NoHvRet
    /\ ExtIdle

NextLoop == RunContractLoop

SpecLoop == InitLoop /\ [][NextLoop]_vars


\* ------------------------------------------------------------------------
\* Properties of the scheduler
\* ------------------------------------------------------------------------
\* positions inside _run_pipeline
RunPcs == {"p_lock1", "p_write1", "in_stage", "p_lock2", "p_write2"}

\* threads whose _updater_loop has not returned
AliveLoops == {t \in Threads : pc[t] \notin {"unborn", "dead"}}

\* every scheduler variable but the caller's position
updFrame == <<running, thread, status, last_update, last_run_start,
              next_run_time, lock, now, nthreads, pc, cur, wake, idx,
              success_count, start_time, end_time, ran, raised,
              begunAfterStop>>

\* C1 (as claimed): single-flight. Whatever the sequence of start() and
\* stop() calls, at most one loop thread is alive and at most one thread is
\* inside _run_pipeline.
C1_SingleFlight ==
    /\ Cardinality(AliveLoops) <= 1
    /\ Cardinality({t \in Threads : pc[t] \in RunPcs}) <= 1

\* C2: continue-on-error. While a run is in its k-th stage the stages
\* entered so far are exactly the first k configured stages in order, and a
\* run reaches its final status only after all four stages were entered
\* once each in the configured order, whichever of them raised.
C2_ContinueOnError ==
    \A t \in Threads :
        /\ pc[t] = "in_stage" =>
              /\ idx[t] \in 1..NumSteps
              /\ ran[t] = SubSeq(StepNames, 1, idx[t])
              /\ raised[t] \subseteq 1..(idx[t] - 1)
        /\ pc[t] \in {"p_lock2", "p_write2"} => ran[t] = StepNames

\* C2 witness: a run is past its stages, its first and third stage raised,
\* and all four stages were entered.
C2_Witness ==
    \E t \in Threads :
        /\ pc[t] = "p_lock2"
        /\ raised[t] = {1, 3}
        /\ ran[t] = StepNames

\* C3: the status a run records when it finishes is successes/total with
\* total = 4 and successes = the number of stages of that run that did not
\* raise; it is the Success form iff successes = total, else the Failed
\* form, and 0 <= successes <= total.
C3_FinalStatus ==
    [][\A t \in Threads :
         (pc[t] = "p_write2" /\ pc'[t] # "p_write2") =>
            LET good == NumSteps - Cardinality(raised[t]) IN
            /\ status'.total = NumSteps
            /\ status'.succ = good
            /\ good >= 0 /\ good <= NumSteps
            /\ status'.kind \in {"Success", "Failed"}
            /\ (status'.kind = "Success") <=> (good = NumSteps)]_vars

\* C3 witness: a finished run with two failed stages is recorded as
\* Failed (2/4).
C3_Witness ==
    /\ status = [kind |-> "Failed", succ |-> 2, total |-> NumSteps]
    /\ \E t \in Threads : pc[t] = "l_lock3"

\* C4: start() on a running scheduler returns at once: no thread is
\* created and the thread handle, the running flag, the status and the
\* next-run time (and everything else) stay as they were.
C4_StartIdempotent ==
    [][(cpc = "start_111" /\ running /\ cpc' # "start_111") =>
          (cpc' = "idle" /\ UNCHANGED updFrame)]_vars

\* C4 witness: start() is called while the scheduler runs and its loop
\* thread is inside a pipeline run.
C4_Witness ==
    /\ cpc = "start_111"
    /\ running
    /\ thread # 0
    /\ pc[thread] = "in_stage"

\* C5 (as claimed): no pipeline run begins while the running flag is False,
\* that is between a stop() and the next start().
C5_NoRunAfterStop ==
    \A t \in Threads : begunAfterStop[t] = 0

\* C5 (amended): between a stop() and the next start() a loop thread that
\* evaluates its loop condition exits, so a thread begins at most one more
\* run, namely when it had evaluated the condition before the flag was
\* cleared; a stop() on a stopped scheduler changes nothing.
C5_StopObserved ==
    [][/\ \A t \in Threads : begunAfterStop'[t] <= 1
       /\ \A t \in Threads :
            (pc[t] = "loop_check" /\ ~running /\ pc'[t] # "loop_check")
               => pc'[t] = "dead"
       /\ (cpc = "stop_123" /\ ~running /\ cpc' # "stop_123")
               => (cpc' = "idle" /\ UNCHANGED updFrame)]_vars

\* C5 witness: the scheduler is stopped, and a loop thread that began one
\* run after the flag was cleared has since left its loop.
C5_Witness ==
    /\ ~running
    /\ cpc = "idle"
    /\ \E t \in Threads : pc[t] = "dead" /\ begunAfterStop[t] = 1

C7_OneRowPerContract ==
    outFile.exists =>
      /\ \A i, j \in 1..Len(outFile.rows) :
           i # j => outFile.rows[i].contract_isin # outFile.rows[j].contract_isin
      /\ Len(outFile.rows) =
           Cardinality({k \in 1..Len(builtFrom) : ~Skipped(builtFrom[k], undLive)})
      /\ \A k \in 1..Len(builtFrom) :
           ~Skipped(builtFrom[k], undLive) =>
             Cardinality({i \in 1..Len(outFile.rows) :
                 /\ outFile.rows[i].type = builtFrom[k].type
                 /\ outFile.rows[i].contract_isin =
                      IF builtFrom[k].type = "PUT" THEN builtFrom[k].isin_put
                                                   ELSE builtFrom[k].isin_call}) = 1

\* a build wrote the PUT and the CALL of one feed record and skipped a row
C7_Witness ==
    /\ chainRet = "built"
    /\ Len(outFile.rows) < Len(builtFrom)
    /\ \E k, l \in 1..Len(builtFrom) :
         /\ k # l
         /\ builtFrom[k].isin_put = builtFrom[l].isin_put
         /\ ~Skipped(builtFrom[k], undLive)
         /\ ~Skipped(builtFrom[l], undLive)

\* ------------------------------------------------------------------------
\* C8 (as stated): a build_chain call that finds the live file as the call
\* before it found it takes the cache-hit path.
\* ------------------------------------------------------------------------
C8_Idempotent == sameInput => chainRet = "hit"

\* ------------------------------------------------------------------------
\* C9 (as stated): the chain gate answers "rebuild" exactly when there is
\* no output artifact, or no saved digest, or the digest of the live file
\* differs from the saved one; whatever files are present.
\* ------------------------------------------------------------------------
C9_GateIff ==
    gateChain.done =>
      (gateChain.result <=>
         \/ ~outFile.exists
         \/ hashFile.state # "text"
         \/ file_hash(liveFile) # hashFile.text)

\* ------------------------------------------------------------------------
\* C10: a gate that read its saved fingerprint or mark and met an error, or
\* read something that is no fingerprint or mark, answers "rebuild".
\* ------------------------------------------------------------------------
C10_FailOpen ==
    /\ gateChain.read \in {"error", "unusable"} => gateChain.result
    /\ gateIV.read \in {"error", "unusable"} => gateIV.result
    /\ gateDate.read \in {"error", "unusable"} => gateDate.result

\* the three gates have answered: the chain gate over a hash file it could
\* not open, the IV gate after an exception, the date gate over a flag that
\* is no integer
C10_Witness ==
    /\ gateChain.done /\ gateChain.read = "error"
    /\ gateIV.done /\ gateIV.read = "error"
    /\ gateDate.done /\ gateDate.read = "unusable"

\* ------------------------------------------------------------------------
\* C11 (as stated): a build that finds a required input file absent returns
\* an empty result: build_chain without the live file returns empty and not
\* the earlier artifact; build_iv_history without the live file, the options
\* history or the underlying history returns empty and does not raise.
\* ------------------------------------------------------------------------
C11_MissingInput ==
    /\ (chainRet # "none" /\ ~liveFile.exists) => chainRet = "nolive"
    /\ (/\ ivRet # "none"
        /\ (~liveFile.exists \/ ~histOptFile.exists \/ ~histUndFile.exists))
         => ivRet \in {"nomatch", "norecords"}

\* ------------------------------------------------------------------------
\* C12: bs_price is exactly 0 when any of S, K, T, sigma is not positive;
\* implied_volatility is NaN when any of price, T, S, K is not positive;
\* calculate_greeks gives five NaN when T <= 0, sigma <= MIN_IV, S <= 0 or
\* K <= 0, and never some NaN beside some numbers.
\* ------------------------------------------------------------------------
C12_Degenerate ==
    /\ (/\ priceRet.bs
        /\ (priceArgs.S <= 0 \/ priceArgs.K <= 0 \/ priceArgs.T <= 0
              \/ priceArgs.sigma <= 0))
         => priceRet.price = Zero
    /\ (/\ priceRet.iv
        /\ (priceArgs.price <= 0 \/ priceArgs.T <= 0 \/ priceArgs.S <= 0
              \/ priceArgs.K <= 0))
         => priceRet.sigma = NaN
    /\ (/\ priceRet.greeks
        /\ (priceArgs.T <= 0 \/ priceArgs.sigma <= MinIvCenti
              \/ priceArgs.S <= 0 \/ priceArgs.K <= 0))
         => \A f \in {"delta", "gamma", "theta", "vega", "rho"} :
              priceRet.g[f] = NaN
    /\ priceRet.greeks
         => \/ \A f \in {"delta", "gamma", "theta", "vega", "rho"} :
                 priceRet.g[f] = NaN
            \/ \A f \in {"delta", "gamma", "theta", "vega", "rho"} :
                 priceRet.g[f] # NaN

\* the three functions were applied to a positive S, K and T with sigma 0
\* and no price
C12_Witness ==
    /\ priceRet.bs /\ priceRet.iv /\ priceRet.greeks
    /\ priceArgs.S > 0 /\ priceArgs.K > 0 /\ priceArgs.T > 0
    /\ priceArgs.sigma = 0
    /\ priceArgs.price <= 0

\* ------------------------------------------------------------------------
\* C13 (as stated): the selected volatility of the underlying is a defined
\* number: the mean of those of HV30, HV90, HV252 that are defined, and 0.3
\* when none is defined.
\* ------------------------------------------------------------------------
C13_SelectedDefined ==
    hvRet.done =>
      /\ hvRet.hv.selected # NaN
      /\ hvRet.hv.selected =
           IF hvRet.hv.v30 = NaN /\ hvRet.hv.v90 = NaN /\ hvRet.hv.v252 = NaN
             THEN DefaultVol
             ELSE Mean(SelectSeq(<<hvRet.hv.v30, hvRet.hv.v90, hvRet.hv.v252>>,
                                 LAMBDA v : v # NaN))

\* ------------------------------------------------------------------------
\* C14 (as stated): with n log returns, HV30 is defined exactly when
\* n >= 30, HV90 exactly when n >= 90, and HV252 whenever n >= 1.
\* ------------------------------------------------------------------------
C14_HvDefined ==
    hvRet.done =>
      /\ (hvRet.hv.v30 # NaN <=> hvRet.hv.nrets >= Hv30Window)
      /\ (hvRet.hv.v90 # NaN <=> hvRet.hv.nrets >= Hv90Window)
      /\ (hvRet.hv.nrets >= 1 => hvRet.hv.v252 # NaN)

\* ------------------------------------------------------------------------
\* C15: every record of the table build_iv_history writes has
\* days_to_expiry > 0 and a date before the expiry the live table gives its
\* contract.
\* ------------------------------------------------------------------------
C15_ExpiryExclusion ==
    (ivOutFile.exists /\ ivOutFile.hasDate) =>
      \A i \in 1..Len(ivOutFile.rows) :
        /\ ivOutFile.rows[i].days_to_expiry > 0
        /\ \A k \in 1..Len(liveFile.rows) :
             (\/ liveFile.rows[k].isin_put = ivOutFile.rows[i].option_isin
              \/ liveFile.rows[k].isin_call = ivOutFile.rows[i].option_isin)
               => ivOutFile.rows[i].date < liveFile.rows[k].end_date

\* a build wrote records while the history held a priced row of a live
\* contract dated on its expiry day
C15_Witness ==
    /\ ivRet = "built"
    /\ Len(ivOutFile.rows) >= 1
    /\ \E j \in 1..Len(histOptFile.rows) : \E k \in 1..Len(liveFile.rows) :
         /\ histOptFile.rows[j].source_isin = liveFile.rows[k].isin_put
         /\ histOptFile.rows[j].last > 0
         /\ histOptFile.rows[j].date = liveFile.rows[k].end_date
         /\ Len(UndAt(histUndFile.rows, histOptFile.rows[j].date)) = 1
         /\ UndAt(histUndFile.rows, histOptFile.rows[j].date)[1].last > 0

\* ------------------------------------------------------------------------
\* C16 (as stated): the table build_iv_history writes has no two records
\* with the same option_isin and date, and is ordered ascending by
\* (option_isin, date).
\* ------------------------------------------------------------------------
C16_OneRowPerContractDate ==
    (ivOutFile.exists /\ ivOutFile.hasDate) =>
      \A i, j \in 1..Len(ivOutFile.rows) :
        i < j =>
          /\ ~(/\ ivOutFile.rows[i].option_isin = ivOutFile.rows[j].option_isin
               /\ ivOutFile.rows[i].date = ivOutFile.rows[j].date)
          /\ \/ ivOutFile.rows[i].option_isin < ivOutFile.rows[j].option_isin
             \/ (/\ ivOutFile.rows[i].option_isin = ivOutFile.rows[j].option_isin
                 /\ ivOutFile.rows[i].date <= ivOutFile.rows[j].date)

\* ------------------------------------------------------------------------
\* C17 (as stated): when build_iv_history asks its gate over an existing
\* options history, the gate answers "rebuild" exactly when there is no
\* output, or the output holds no record, or the largest date of the
\* history exceeds the largest date of the output; so a call that follows a
\* build with the inputs unchanged is skipped.
\* ------------------------------------------------------------------------
C17_HighWaterMark ==
    [][(ivCalls' = ivCalls + 1 /\ histOptFile.exists) =>
         (gateIV'.result <=>
            \/ ~ivOutFile.exists
            \/ ~ivOutFile.hasDate
            \/ ivOutFile.dates = <<>>
            \/ MaxOf(histOptFile.dates) > MaxOf(ivOutFile.dates))]_vars

\* ------------------------------------------------------------------------
\* C18 (as stated): a pipeline run in which a stage failed leaves
\* last_update as it was.
\* ------------------------------------------------------------------------
C18_LastSuccess ==
    [][\A t \in Threads :
         (/\ pc[t] = "p_write2"
          /\ pc'[t] # "p_write2"
          /\ success_count[t] # NumSteps)
           => last_update' = last_update]_vars

\* ------------------------------------------------------------------------
\* C19 (as stated): a step that changes status, last_update, last_run_start
\* or _next_run_time is taken by a thread holding the lock, and get_status
\* reads them holding the lock.
\* ------------------------------------------------------------------------
C19_WritesUnderLock ==
    [][/\ (\/ status' # status
           \/ last_update' # last_update
           \/ last_run_start' # last_run_start
           \/ next_run_time' # next_run_time)
            => lock \in Threads
       /\ qpc = "q_read" => lock = Reader]_vars

\* ------------------------------------------------------------------------
\* C20: no thread holds the lock while it executes a stage or sleeps; the
\* holder of the lock is always at a step that writes or reads the status
\* fields and releases it; and the snapshot get_status returns has
\* next_update_in_seconds >= 0 and the configured interval.
\* ------------------------------------------------------------------------
C20_LockShortHeld ==
    /\ \A t \in Threads : pc[t] \in {"in_stage", "sleeping"} => lock # t
    /\ lock # 0 =>
         \/ (lock = Reader /\ qpc = "q_read")
         \/ (lock \in Threads /\ pc[lock] \in {"p_write1", "p_write2", "l_write3"})
    /\ snap.done =>
         /\ snap.next_update_in_seconds >= 0
         /\ snap.interval_seconds = Interval

\* get_status returned a snapshot taken while a stage was executing
C20_Witness ==
    /\ snap.done
    /\ snap.busy
    /\ snap.status = RunningStatus

\* ------------------------------------------------------------------------
\* C21: the loop of build_chain appends exactly one row for every live row
\* that passes the skip checks, whether or not implied_volatility finds a
\* root; a row without a root has an undefined iv and is priced (bs_price
\* and calculate_greeks) with the selected historical volatility of the
\* underlying; a row with a root is priced with the solved IV.
\* ------------------------------------------------------------------------
C21_IvFallback ==
    loopRet.done =>
      /\ \A i \in 1..Len(liveFile.rows) :
           ~Skipped(liveFile.rows[i], undLive) =>
             Cardinality({j \in 1..Len(loopRet.from) : loopRet.from[j] = i}) = 1
      /\ \A j \in 1..Len(loopRet.rows) :
           LET row == loopRet.rows[j]
               r == liveFile.rows[loopRet.from[j]]
               used == IF row.iv = NaN THEN hv_data(hvHist).selected ELSE row.iv
           IN  /\ (row.iv = NaN <=>
                     (r.cells = "no_price" \/ NoRoot(IvArgs(r, undLive))
                        \/ r.strike <= 0))
               /\ row.sigma = used
               /\ row.theoretical_price.of[4] = used
               /\ row.greeks.of[4] = used

\* the loop appended a row whose IV has no root and a row whose IV was
\* solved, over a history that gives a mean volatility
C21_Witness ==
    /\ loopRet.done
    /\ hv_data(hvHist).selected \notin {NaN, DefaultVol}
    /\ \E j, k \in 1..Len(loopRet.rows) :
         /\ loopRet.rows[j].iv = NaN
         /\ loopRet.rows[j].has_price
         /\ loopRet.rows[j].sigma = hv_data(hvHist).selected
         /\ loopRet.rows[k].iv # NaN
         /\ loopRet.rows[k].sigma = loopRet.rows[k].iv

\* ------------------------------------------------------------------------
\* C22 (as stated): the loop of build_chain appends one row or counts one
\* skip for each live row, so rows + skipped is the number of live rows,
\* and a row is appended only for a live row with a spot > 0, T > 0, a
\* price > 0 and cells that parse.
\* ------------------------------------------------------------------------
C22_Partition ==
    loopRet.done =>
      /\ Len(loopRet.rows) + loopRet.skipped = Len(liveFile.rows)
      /\ \A j, k \in 1..Len(loopRet.from) :
           j # k => loopRet.from[j] # loopRet.from[k]
      /\ \A j \in 1..Len(loopRet.from) :
           LET r == liveFile.rows[loopRet.from[j]]
           IN  /\ SpotOf(r, undLive) > 0
               /\ r.remained_day > 0
               /\ r.cells = "ok"
               /\ r.real_time_price > 0

\* the day of the model a date stands for
DayNumber(code) ==
    IF code = 0 THEN 0
    ELSE IF code = JalaliText(14040631) THEN 1
    ELSE code - JalaliText(14040700) + 1

\* the rows of the table build_iv_history left on disk
IvOutRows == IF ivOutFile.exists /\ ivOutFile.hasDate THEN ivOutFile.rows ELSE <<>>

\* ------------------------------------------------------------------------
\* C23 (as stated): days_to_expiry of every record build_iv_history writes
\* is the number of days from the record's date to the expiry the live
\* table gives its contract, also when the two lie in different months.
\* ------------------------------------------------------------------------
C23_DaysToExpiry ==
    \A i \in 1..Len(IvOutRows) :
      \A k \in 1..Len(liveFile.rows) :
        (\/ liveFile.rows[k].isin_put = IvOutRows[i].option_isin
         \/ liveFile.rows[k].isin_call = IvOutRows[i].option_isin)
          => IvOutRows[i].days_to_expiry =
               DayNumber(liveFile.rows[k].end_date) - DayNumber(IvOutRows[i].date)

\* the underlying has a price at the date of the cell c and it is positive
SameDatePricePositive(urows, c) ==
    /\ UndAt(urows, c) # <<>>
    /\ \A i \in 1..Len(UndAt(urows, c)) : UndAt(urows, c)[i].last > 0

\* ------------------------------------------------------------------------
\* C24 (as stated): when build_iv_history has run its loop, a retained row
\* dated before its expiry and carrying a positive price has a record
\* exactly when the underlying has a positive price at the row's date, and
\* every record carries a positive price the underlying has at its date.
\* ------------------------------------------------------------------------
C24_UnderlyingPrice ==
    (ivRet \in {"built", "norecords"}) =>
      LET cmap == contract_map(liveFile.rows)
          kept == FilterHist(histOptFile.rows, cmap)
      IN  /\ \A j \in 1..Len(kept) :
               (/\ InfoOf(cmap, kept[j].source_isin).end_int
                     > jalali_to_int(kept[j].date)
                /\ kept[j].last > 0)
               => ((\E i \in 1..Len(IvOutRows) :
                      /\ IvOutRows[i].option_isin = kept[j].source_isin
                      /\ IvOutRows[i].date = kept[j].date)
                   <=> SameDatePricePositive(histUndFile.rows, kept[j].date))
          /\ \A i \in 1..Len(IvOutRows) :
               /\ IvOutRows[i].underlying_price > 0
               /\ \E k \in 1..Len(histUndFile.rows) :
                    /\ histUndFile.rows[k].date = IvOutRows[i].date
                    /\ histUndFile.rows[k].last = IvOutRows[i].underlying_price

\* the rows of the loop that pass the expiry, price and underlying checks
PassingRows(hrows, cmap, urows) ==
    SelectSeq(hrows,
      LAMBDA h : /\ InfoOf(cmap, h.source_isin).end_int > jalali_to_int(h.date)
                 /\ h.last > 0
                 /\ Len(UndAt(urows, h.date)) = 1
                 /\ UndAt(urows, h.date)[1].last > 0)

\* ------------------------------------------------------------------------
\* C29 (as stated): with the three inputs present and n >= 1 retained
\* historical rows, also n < 10, a build that passes its gate runs the loop
\* to its end and leaves one record per row that passes the expiry, price
\* and underlying-price checks.
\* ------------------------------------------------------------------------
C29_EveryRowVisited ==
    [][(/\ ivCalls' = ivCalls + 1
        /\ gateIV'.result
        /\ liveFile.exists /\ histOptFile.exists /\ histUndFile.exists
        /\ FilterHist(histOptFile.rows, contract_map(liveFile.rows)) # <<>>)
       => /\ ivRet' \in {"built", "norecords"}
          /\ ivOutFile'.exists
          /\ Len(IF ivOutFile'.hasDate THEN ivOutFile'.rows ELSE <<>>)
               = Len(PassingRows(FilterHist(histOptFile.rows,
                                            contract_map(liveFile.rows)),
                                 contract_map(liveFile.rows),
                                 histUndFile.rows))]_vars

\* the rows of the underlying in the history calculate_hv was given
OwnRows == IF hvHist.exists THEN SelectSeq(hvHist.rows, LAMBDA r : r.own) ELSE <<>>

\* ------------------------------------------------------------------------
\* C28 (as stated): the series calculate_hv keeps after line 135 is in
\* ascending date order, holds one row of every date of the underlying, and
\* that row is the latest record of its date.
\* ------------------------------------------------------------------------
C28_LatestPerDate ==
    (hvRet.done /\ Len(OwnRows) >= 2) =>
      /\ \A i, j \in 1..Len(hvRet.kept) :
           i < j => hvRet.kept[i].date < hvRet.kept[j].date
      /\ \A k \in 1..Len(OwnRows) :
           \E i \in 1..Len(hvRet.kept) :
             /\ hvRet.kept[i].date = OwnRows[k].date
             /\ hvRet.kept[i].hour >= OwnRows[k].hour

\* ------------------------------------------------------------------------
\* C25 (as stated): when process_file has processed a workbook that holds a
\* date, the '.processed' sidecar holds the largest date of that workbook;
\* and a call that follows a processing call is skipped and leaves the
\* workbook, its date cells included, as it was.
\* ------------------------------------------------------------------------
C25_ProcessedOnce ==
    [][(procCalls' = procCalls + 1) =>
         /\ ((procRet' = "processed" /\ LatestDate(dateFile) # 0)
               => flagFile' = Flag(IntText(LatestDate(dateFile))))
         /\ (procRet = "processed"
               => (procRet' = "skipped" /\ dateFile' = dateFile))]_vars

\* a loop thread is between the two status writes of _run_pipeline
InsideRun(t) == pc[t] \in {"in_stage", "p_lock2", "p_write2"}

\* ------------------------------------------------------------------------
\* C26 (as stated): whatever way its stages terminate, returning or
\* raising an exception of any kind, a run that wrote 'Running...' goes on
\* to write its Success or Failed status: the status is 'Running...' only
\* while a loop thread is executing a run.
\* ------------------------------------------------------------------------
C26_LeavesRunning ==
    (status = RunningStatus) => \E t \in Threads : InsideRun(t)

\* the loop thread t decides to run the pipeline in this step
BeginsRun(t) == pc[t] = "decide" /\ pc'[t] = "p_lock1"

C30_NeverSuperseded ==
    [][(ivResp'.done /\ ivResp' # ivResp)
         => ivResp' = Respond(~ivOutFile.exists, ArtifactRows(ivOutFile),
                              ivResp'.isin)]_vars

====
